---- MODULE Spec2Model ----
(***************************************************************************)
(* State-machine model of EnhancedAnomalyDetector (src/anomaly_detector.py) *)
(* One detector instance, its persisted bundle file, and a wall clock.     *)
(*                                                                         *)
(* Units.  Scorer outputs and scaled values are in tenths (0.1), the fused *)
(* score and anomaly_threshold in hundredths (0.01), health weights and    *)
(* metric penalties in tenths, health scores in hundredths of a point      *)
(* (100.0 == 10000), the clock in hours.                                   *)
(***************************************************************************)
EXTENDS Integers, Sequences, FiniteSets, TLC

VARIABLES
    det,     \* the detector object's fields
    disk,    \* the bundle file anomaly_models.pkl under model_path
    now,     \* datetime.now(), in hours
    nruns,   \* number of fitting runs started so far (names new artifacts)
    ncalls,  \* number of operations performed so far
    last,    \* what the most recent completed call did and returned
    tctx     \* the train_model call in progress (pc = "idle" when none)

vars == <<det, disk, now, nruns, ncalls, last, tctx>>

----------------------------------------------------------------------------
(* Bounds of the model *)

MaxCalls == 4         \* operations (calls and clock ticks) per behaviour

TickHours == 12       \* hours added by one clock tick

----------------------------------------------------------------------------
(* Values, rows and tables (pandas DataFrame) *)

Num(x) == [k |-> "num", v |-> x]
NaN == [k |-> "nan", v |-> 0]
Inf == [k |-> "inf", v |-> 0]
Str == [k |-> "str", v |-> 0]

Range(s) == {s[i] : i \in DOMAIN s}

Abs(x) == IF x < 0 THEN -x ELSE x
Min(a, b) == IF a < b THEN a ELSE b
Max(a, b) == IF a > b THEN a ELSE b

RECURSIVE SumSeq(_)
SumSeq(s) == IF s = <<>> THEN 0 ELSE Head(s) + SumSeq(Tail(s))

\* DataFrame.tail(n)
TailN(s, n) == IF Len(s) <= n THEN s ELSE SubSeq(s, Len(s) - n + 1, Len(s))

EmptyFrame == [cols |-> <<>>, rows |-> <<>>]

\* DataFrame.empty: either axis has length 0
FrameEmpty(f) == f.cols = <<>> \/ f.rows = <<>>

\* A table of n rows over cols; row i holds base[c] + ((i % 5) - 2) * spread[c]
\* in column c
Frame(cols, n, base, spread) ==
    [cols |-> cols,
     rows |-> [i \in 1..n |->
                 [c \in Range(cols) |-> Num(base[c] + ((i % 5) - 2) * spread[c])]]]

\* The table f with value v written into column c of its first k rows
WithCells(f, k, c, v) ==
    [f EXCEPT !.rows = [i \in DOMAIN f.rows |->
        IF i <= k THEN [f.rows[i] EXCEPT ![c] = v] ELSE f.rows[i]]]

\* The table f with column c holding the single value v in every row
WithConstant(f, c, v) == WithCells(f, Len(f.rows), c, v)

TempMetric == "left_main_temp_pv"
CtMetric == "left_aux1a_ct"
OtherColumn == "unrelated_col"

Metrics == <<TempMetric, CtMetric>>

\* Which of the keywords of _classify_metric_type a metric name contains
NameHas == [m \in {TempMetric, CtMetric, OtherColumn} |->
              CASE m = TempMetric -> {"temp"}
                [] m = CtMetric -> {"ct"}
                [] OTHER -> {}]

----------------------------------------------------------------------------
(* Configuration *)

\* Keys of the configuration whose values are dictionaries
DictKeys == {"isolation_forest", "elliptic_envelope", "health_weights"}

default_config ==
    [isolation_forest |-> [contamination |-> 10, n_estimators |-> 200],
     elliptic_envelope |-> [contamination |-> 10],
     scaler_type |-> "robust",
     min_data_points |-> 100,
     retrain_interval_hours |-> 24,
     prediction_points |-> 10,
     health_weights |-> [temperature |-> 4, current |-> 3,
                         pressure |-> 2, other |-> 1],
     anomaly_threshold |-> -50,
     cache_size |-> 1000]

\* One level of _deep_update_dict: a dictionary value is merged key by key
MergeDict(base, upd) ==
    [k \in (DOMAIN base) \cup (DOMAIN upd) |->
        IF k \in DOMAIN upd THEN upd[k] ELSE base[k]]

_deep_update_dict(base_dict, update_dict) ==
    [key \in (DOMAIN base_dict) \cup (DOMAIN update_dict) |->
        IF key \notin DOMAIN update_dict THEN base_dict[key]
        ELSE IF key \in DOMAIN base_dict /\ key \in DictKeys
             THEN MergeDict(base_dict[key], update_dict[key])
             ELSE update_dict[key]]

\* Configurations handed to the constructor.  Row counts are scaled down:
\* every one sets min_data_points and cache_size to small values.
UserConfigs ==
    { [isolation_forest |-> [contamination |-> 5, n_estimators |-> 300],
       min_data_points |-> 7,
       health_weights |-> [temperature |-> 40, current |-> -10],
       cache_size |-> 3],
      [isolation_forest |-> [contamination |-> 600],
       min_data_points |-> 5, cache_size |-> 3] }

\* Dictionaries handed to update_config
ConfigUpdates ==
    { [scaler_type |-> "standard"],
      [cache_size |-> 1] }

----------------------------------------------------------------------------
(* The detector object *)

NoTime == [set |-> FALSE, t |-> 0]
At(t) == [set |-> TRUE, t |-> t]

\* None in a model field
NoScaler == [present |-> FALSE, run |-> 0, fitted |-> FALSE, kind |-> "none",
             cols |-> <<>>, center |-> <<>>, scale |-> <<>>]
NoScorer == [present |-> FALSE, run |-> 0, fitted |-> FALSE, nfeat |-> 0]
NoTrend == [present |-> FALSE, run |-> 0, fitted |-> FALSE]

\* __init__ up to the call of _load_models
NewDetector(metrics, config) ==
    [metrics_to_monitor |-> metrics,
     config |-> _deep_update_dict(default_config, config),
     isolation_forest |-> NoScorer,
     elliptic_envelope |-> NoScorer,
     trend_predictor |-> NoTrend,
     scaler |-> NoScaler,
     is_trained |-> FALSE,
     last_train_time |-> NoTime,
     training_data_cache |-> EmptyFrame,
     health_score_history |-> <<>>,
     n_detection_times |-> 0,
     n_training_times |-> 0]

\* The fields that make up the trained bundle
Bundle(d) ==
    [isolation_forest |-> d.isolation_forest,
     elliptic_envelope |-> d.elliptic_envelope,
     trend_predictor |-> d.trend_predictor,
     scaler |-> d.scaler,
     last_train_time |-> d.last_train_time,
     training_data_cache |-> d.training_data_cache]

\* The dictionary _save_models pickles: the bundle fields, the configuration
\* and the metric list of the saving detector
ModelData(d) ==
    [isolation_forest |-> d.isolation_forest,
     elliptic_envelope |-> d.elliptic_envelope,
     trend_predictor |-> d.trend_predictor,
     scaler |-> d.scaler,
     config |-> d.config,
     metrics_to_monitor |-> d.metrics_to_monitor,
     last_train_time |-> d.last_train_time,
     training_data_cache |-> d.training_data_cache]

\* No file anomaly_models.pkl under model_path
NoFile == [kind |-> "none", model_data |-> ModelData(NewDetector(<<>>, <<>>))]

----------------------------------------------------------------------------
(* _validate_data *)

Ok(v) == [ok |-> TRUE, exc |-> "", val |-> v]
Raise(e) == [ok |-> FALSE, exc |-> e, val |-> EmptyFrame]

\* data[available_metrics].replace([inf, -inf], nan).dropna()
\* Variant: infinite values are not turned into NaN before rows are dropped
CleanRows_KeepInf(data, available_metrics) ==
    LET colset == Range(available_metrics)
        proj == [i \in DOMAIN data.rows |-> [c \in colset |-> data.rows[i][c]]]
    IN SelectSeq(proj, LAMBDA r : \A c \in colset : r[c].k # "nan")

CleanRows(data, available_metrics) ==
    LET colset == Range(available_metrics)
        proj == [i \in DOMAIN data.rows |->
                    [c \in colset |->
                        IF data.rows[i][c].k = "inf" THEN NaN
                        ELSE data.rows[i][c]]]
    IN SelectSeq(proj, LAMBDA r : \A c \in colset : r[c].k # "nan")

_validate_data(d, data) ==
    IF FrameEmpty(data) THEN Raise("ValueError: empty input")
    ELSE LET available_metrics ==
                 SelectSeq(d.metrics_to_monitor, LAMBDA m : m \in Range(data.cols))
         IN IF available_metrics = <<>>
            THEN Raise("ValueError: no monitored metric")
            ELSE LET data_cleaned == [cols |-> available_metrics,
                                      rows |-> CleanRows(data, available_metrics)]
                 IN IF FrameEmpty(data_cleaned)
                    THEN Raise("ValueError: empty after cleaning")
                    ELSE Ok(data_cleaned)

----------------------------------------------------------------------------
(* Scaler and scorers (scikit-learn objects) *)

Column(data, c) == [i \in DOMAIN data.rows |-> data.rows[i][c]]

IsNumeric(data) ==
    \A i \in DOMAIN data.rows : \A c \in Range(data.cols) : data.rows[i][c].k = "num"

Sorted(vals) == SortSeq(vals, LAMBDA a, b : a < b)

ISqrt(v) == CHOOSE r \in 0..v : r * r <= v /\ (r + 1) * (r + 1) > v

\* A scale of zero is replaced by one, as scikit-learn does
NonZero(x) == IF x = 0 THEN 1 ELSE x

\* RobustScaler: median and interquartile range of one column
RobustCenter(vals) == Sorted(vals)[(Len(vals) + 1) \div 2]
RobustScale(vals) ==
    NonZero(Sorted(vals)[(3 * Len(vals) + 1) \div 4] - Sorted(vals)[(Len(vals) + 3) \div 4])

\* StandardScaler: mean and standard deviation of one column
StandardCenter(vals) == SumSeq(vals) \div Len(vals)
StandardScale(vals) ==
    NonZero(ISqrt(SumSeq([i \in DOMAIN vals |->
                (vals[i] - StandardCenter(vals)) * (vals[i] - StandardCenter(vals))])
            \div Len(vals)))

_create_scaler(d, run) ==
    [present |-> TRUE, run |-> run, fitted |-> FALSE,
     kind |-> IF d.config.scaler_type = "robust" THEN "robust" ELSE "standard",
     cols |-> <<>>, center |-> <<>>, scale |-> <<>>]

\* scaler.fit(training_data): fails on a non-numeric cell
ScalerFitRaises(data) == ~IsNumeric(data)

ScalerFit(sc, data) ==
    LET nums(c) == [i \in DOMAIN data.rows |-> data.rows[i][c].v]
    IN [sc EXCEPT
          !.fitted = TRUE,
          !.cols = data.cols,
          !.center = [j \in DOMAIN data.cols |->
                        IF sc.kind = "robust" THEN RobustCenter(nums(data.cols[j]))
                        ELSE StandardCenter(nums(data.cols[j]))],
          !.scale = [j \in DOMAIN data.cols |->
                        IF sc.kind = "robust" THEN RobustScale(nums(data.cols[j]))
                        ELSE StandardScale(nums(data.cols[j]))]]

\* scaler.transform(data_cleaned) raises for an unfitted scaler, for columns
\* other than the fitted ones, and for a non-numeric cell
TransformRaises(sc, data) ==
    ~sc.present \/ ~sc.fitted \/ sc.cols # data.cols \/ ~IsNumeric(data)

\* Row 1 of scaler.transform(data), in tenths
ScaledRow(sc, data) ==
    [j \in DOMAIN data.cols |->
        ((data.rows[1][data.cols[j]].v - sc.center[j]) * 10) \div sc.scale[j]]

NewScorer(run) == [present |-> TRUE, run |-> run, fitted |-> FALSE, nfeat |-> 0]

\* IsolationForest.fit validates its parameters: contamination in (0, 0.5]
IsolationForestFitRaises(d) ==
    ~(d.config.isolation_forest.contamination > 0
      /\ d.config.isolation_forest.contamination <= 500)

\* EllipticEnvelope.fit fails on a degenerate (singular) covariance: here, a
\* column that holds one value only
EllipticEnvelopeFitRaises(d, data) ==
    \/ ~(d.config.elliptic_envelope.contamination > 0
         /\ d.config.elliptic_envelope.contamination <= 500)
    \/ \E c \in Range(data.cols) : Cardinality(Range(Column(data, c))) = 1

ScorerFit(m, data) == [m EXCEPT !.fitted = TRUE, !.nfeat = Len(data.cols)]

DecisionRaises(m, scaled) == ~m.fitted \/ m.nfeat # Len(scaled)

MaxAbs(scaled) ==
    IF scaled = <<>> THEN 0
    ELSE CHOOSE x \in {Abs(scaled[j]) : j \in DOMAIN scaled} :
             \A j \in DOMAIN scaled : Abs(scaled[j]) <= x

\* isolation_forest.decision_function(scaled_data)[0], in tenths: lower for a
\* point further from the bulk of the training data, never below -0.5
IsolationForestDecision(scaled) == Max(-5, 1 - (MaxAbs(scaled) \div 10))

\* elliptic_envelope.decision_function(scaled_data)[0], in tenths: an offset
\* minus the squared distance from the centre
EllipticEnvelopeDecision(scaled) ==
    30 - (SumSeq([j \in DOMAIN scaled |-> scaled[j] * scaled[j]]) \div 10)

----------------------------------------------------------------------------
(* train_model *)

TrendMinRows == 20
window_size == 5

\* Variant: a call exactly one interval after the last training is skipped too
_should_skip_training_Inclusive(d, t) ==
    IF ~d.is_trained \/ ~d.last_train_time.set THEN FALSE
    ELSE t - d.last_train_time.t <= d.config.retrain_interval_hours

\* _should_skip_training                                (lines 271-285)
_should_skip_training(d, t) ==
    IF ~d.is_trained \/ ~d.last_train_time.set THEN FALSE
    ELSE t - d.last_train_time.t < d.config.retrain_interval_hours

\* _train_trend_predictor: too few rows or no window leaves trend_predictor as
\* it was; otherwise a regressor fitted in this run replaces it
_train_trend_predictor(d, data, run) ==
    IF Len(data.rows) < TrendMinRows THEN d
    ELSE LET n_windows ==
                 SumSeq([j \in DOMAIN d.metrics_to_monitor |->
                     IF d.metrics_to_monitor[j] \in Range(data.cols)
                     THEN Max(0, Len(data.rows) - window_size) ELSE 0])
         IN IF n_windows = 0 THEN d
            ELSE [d EXCEPT !.trend_predictor =
                     [present |-> TRUE, run |-> run, fitted |-> TRUE]]

SaveOutcomes == {"ok", "dump_error"}

\* _save_models: a failure is logged and swallowed.  A failure of pickle.dump
\* leaves a truncated file.
_save_models(d, dk, outcome) ==
    IF outcome = "ok"
    THEN [kind |-> "bundle", model_data |-> ModelData(d)]
    ELSE [kind |-> "corrupt", model_data |-> NoFile.model_data]

\* The train_model call in progress
IdleCtx == [pc |-> "idle", arg |-> "", force |-> FALSE, data |-> EmptyFrame, run |-> 0,
            save |-> "ok", ret |-> FALSE, raised |-> FALSE, exc |-> "",
            skipped |-> FALSE, was_trained |-> FALSE, ee_failed |-> FALSE,
            saved |-> "no"]

\* return <value>
TrainReturn(c, value) == [c EXCEPT !.pc = "done", !.ret = value]

\* except Exception as e: ... return False            (lines 267-269)
TrainExcept(c, e) == [c EXCEPT !.pc = "done", !.ret = FALSE, !.exc = e]

\* Variant: only a table without rows is too small
TooFewRows_OnlyEmpty(d, training_data) == Len(training_data.rows) = 0

\* len(training_data) < self.config['min_data_points']  (line 223)
TooFewRows(d, training_data) == Len(training_data.rows) < d.config.min_data_points

\* Lines 210-227: the interval check, validation and the row-count check
TrainBegin(d, historical_data, force_retrain, t, run, save) ==
    LET c == [IdleCtx EXCEPT !.force = force_retrain, !.run = run, !.save = save,
                             !.was_trained = d.is_trained]
    IN IF ~force_retrain /\ _should_skip_training(d, t)
       THEN [TrainReturn(c, TRUE) EXCEPT !.skipped = TRUE]
       ELSE LET v == _validate_data(d, historical_data)
            IN IF ~v.ok THEN TrainExcept(c, v.exc)
               ELSE IF TooFewRows(d, v.val)
                    THEN TrainReturn(c, FALSE)
                    ELSE [c EXCEPT !.pc = "scaler_new", !.data = v.val]

\* Variant: a failure to save ends the call through the except branch
SaveStep_Propagates(d, dk, c) ==
    IF c.save = "ok"
    THEN [det |-> d, disk |-> _save_models(d, dk, c.save),
          ctx |-> [c EXCEPT !.pc = "times", !.saved = c.save]]
    ELSE [det |-> d, disk |-> _save_models(d, dk, c.save),
          ctx |-> [TrainExcept(c, "OSError: save") EXCEPT !.saved = c.save]]

\* self._save_models()                                  (line 257)
SaveStep(d, dk, c) ==
    [det |-> d, disk |-> _save_models(d, dk, c.save),
     ctx |-> [c EXCEPT !.pc = "times", !.saved = c.save]]

\* Lines 229-265, one statement at a time
TrainStep(d, dk, c, t) ==
    LET go(d2, pc2) == [det |-> d2, disk |-> dk, ctx |-> [c EXCEPT !.pc = pc2]]
    IN CASE c.pc = "scaler_new" ->
              go([d EXCEPT !.scaler = _create_scaler(d, c.run)], "scaler_fit")
         [] c.pc = "scaler_fit" ->
              IF ~d.scaler.present \/ ScalerFitRaises(c.data)
              THEN [det |-> d, disk |-> dk,
                    ctx |-> TrainExcept(c, "ValueError: scaler fit")]
              ELSE go([d EXCEPT !.scaler = ScalerFit(d.scaler, c.data)], "if_new")
         [] c.pc = "if_new" ->
              go([d EXCEPT !.isolation_forest = NewScorer(c.run)], "if_fit")
         [] c.pc = "if_fit" ->
              IF ~d.isolation_forest.present \/ IsolationForestFitRaises(d)
              THEN [det |-> d, disk |-> dk,
                    ctx |-> TrainExcept(c, "ValueError: isolation forest fit")]
              ELSE go([d EXCEPT !.isolation_forest =
                                   ScorerFit(d.isolation_forest, c.data)], "ee_new")
         [] c.pc = "ee_new" ->
              go([d EXCEPT !.elliptic_envelope = NewScorer(c.run)], "ee_fit")
         [] c.pc = "ee_fit" ->
              IF ~d.elliptic_envelope.present \/ EllipticEnvelopeFitRaises(d, c.data)
              THEN [det |-> [d EXCEPT !.elliptic_envelope = NoScorer], disk |-> dk,
                    ctx |-> [c EXCEPT !.pc = "trend", !.ee_failed = TRUE]]
              ELSE go([d EXCEPT !.elliptic_envelope =
                                   ScorerFit(d.elliptic_envelope, c.data)], "trend")
         [] c.pc = "trend" ->
              go(_train_trend_predictor(d, c.data, c.run), "set_trained")
         [] c.pc = "set_trained" ->
              go([d EXCEPT !.is_trained = TRUE], "set_time")
         [] c.pc = "set_time" ->
              go([d EXCEPT !.last_train_time = At(t)], "set_cache")
         [] c.pc = "set_cache" ->
              go([d EXCEPT !.training_data_cache =
                             [cols |-> c.data.cols,
                              rows |-> TailN(c.data.rows, d.config.cache_size)]],
                 "save")
         [] c.pc = "save" -> SaveStep(d, dk, c)
         [] c.pc = "times" ->
              [det |-> [d EXCEPT !.n_training_times = @ + 1], disk |-> dk,
               ctx |-> TrainReturn(c, TRUE)]
         [] OTHER -> [det |-> d, disk |-> dk, ctx |-> c]

RECURSIVE TrainRun(_, _)
TrainRun(s, t) ==
    IF s.ctx.pc = "done" THEN s ELSE TrainRun(TrainStep(s.det, s.disk, s.ctx, t), t)

\* The whole call, run without interruption
train_model(d, dk, historical_data, force_retrain, t, run, save) ==
    TrainRun([det |-> d, disk |-> dk,
              ctx |-> TrainBegin(d, historical_data, force_retrain, t, run, save)], t)

----------------------------------------------------------------------------
(* detect *)

HistoryLimit == 100
IsolationForestWeight == 7
EllipticEnvelopeWeight == 3

\* _multi_algorithm_detection: the scores of the scorers that are present and
\* whose decision_function does not raise
_multi_algorithm_detection(d, scaled) ==
    LET algos == {a \in {"isolation_forest", "elliptic_envelope"} :
                    /\ d[a].present
                    /\ ~DecisionRaises(d[a], scaled)}
    IN [a \in algos |-> IF a = "isolation_forest"
                        THEN IsolationForestDecision(scaled)
                        ELSE EllipticEnvelopeDecision(scaled)]

\* _fusion_anomaly_scores, in hundredths
_fusion_anomaly_scores(scores) ==
    LET weights == [isolation_forest |-> IsolationForestWeight,
                    elliptic_envelope |-> EllipticEnvelopeWeight]
        algos == (DOMAIN scores) \cap (DOMAIN weights)
        order == <<"isolation_forest", "elliptic_envelope">>
        weighted_score == SumSeq([j \in DOMAIN order |->
                             IF order[j] \in algos
                             THEN scores[order[j]] * weights[order[j]] ELSE 0])
        total_weight == SumSeq([j \in DOMAIN order |->
                             IF order[j] \in algos THEN weights[order[j]] ELSE 0])
    IN IF DOMAIN scores = {} THEN 0
       ELSE IF total_weight > 0 THEN (weighted_score * 10) \div total_weight
       ELSE 0

\* Variant: the result is not limited to [0, 1]
_calculate_confidence_Unclamped(scores) ==
    IF DOMAIN scores = {} THEN 0
    ELSE IF Cardinality(DOMAIN scores) = 1 THEN 80
    ELSE 100 - Abs(scores["isolation_forest"] - scores["elliptic_envelope"]) * 5

\* _calculate_confidence, in hundredths; the standard deviation of two scores
\* a, b (tenths) is |a - b| / 2
_calculate_confidence(scores) ==
    IF DOMAIN scores = {} THEN 0
    ELSE IF Cardinality(DOMAIN scores) = 1 THEN 80
    ELSE LET std == Abs(scores["isolation_forest"] - scores["elliptic_envelope"]) * 5
         IN Max(0, Min(100, 100 - std))

_classify_metric_type(metric_name) ==
    IF "temp" \in NameHas[metric_name] THEN "temperature"
    ELSE IF "current" \in NameHas[metric_name] \/ "ct" \in NameHas[metric_name]
         THEN "current"
    ELSE IF "pressure" \in NameHas[metric_name] THEN "pressure"
    ELSE "other"

\* Variant: a value outside the band is also charged the warning penalty
_calculate_metric_penalty_Cumulative(metric_name, value, metric_type) ==
    LET thresholds ==
            [temperature |-> [min |-> 0, max |-> 100, warning |-> 80],
             current |-> [min |-> 0, max |-> 50, warning |-> 40],
             pressure |-> [min |-> 0, max |-> 10, warning |-> 8],
             other |-> [min |-> -1000, max |-> 1000, warning |-> 800]]
        threshold == IF metric_type \in DOMAIN thresholds
                     THEN thresholds[metric_type] ELSE thresholds["other"]
        range_penalty ==
            (IF value.k = "num" /\ (value.v > threshold.max \/ value.v < threshold.min)
             THEN 3 ELSE 0)
            + (IF value.k = "num" /\ value.v > threshold.warning THEN 1 ELSE 0)
        extreme_penalty == IF value.k \in {"nan", "inf"} THEN 5 ELSE 0
    IN Min(10, range_penalty + extreme_penalty)

\* _calculate_metric_penalty, in tenths
_calculate_metric_penalty(metric_name, value, metric_type) ==
    LET thresholds ==
            [temperature |-> [min |-> 0, max |-> 100, warning |-> 80],
             current |-> [min |-> 0, max |-> 50, warning |-> 40],
             pressure |-> [min |-> 0, max |-> 10, warning |-> 8],
             other |-> [min |-> -1000, max |-> 1000, warning |-> 800]]
        threshold == IF metric_type \in DOMAIN thresholds
                     THEN thresholds[metric_type] ELSE thresholds["other"]
        range_penalty ==
            IF value.k = "num" /\ (value.v > threshold.max \/ value.v < threshold.min)
            THEN 3
            ELSE IF value.k = "num" /\ value.v > threshold.warning THEN 1
            ELSE 0
        extreme_penalty == IF value.k \in {"nan", "inf"} THEN 5 ELSE 0
    IN Min(10, range_penalty + extreme_penalty)

\* Variant: the score is not limited to [0, 100]
HealthScoreValue_Unclamped(d, data, is_anomaly, anomaly_score) ==
    LET weights == d.config.health_weights
        anomaly_penalty == IF is_anomaly THEN Min(3000, Abs(anomaly_score) * 20) ELSE 0
        metric_penalties ==
            [j \in DOMAIN data.cols |->
                LET metric == data.cols[j]
                    metric_type == _classify_metric_type(metric)
                    weight == IF metric_type \in DOMAIN weights
                              THEN weights[metric_type] ELSE weights["other"]
                IN _calculate_metric_penalty(metric, data.rows[1][metric], metric_type)
                     * weight * 100]
    IN 10000 - anomaly_penalty - SumSeq(metric_penalties)

\* Variant: the anomaly penalty is not limited to 30 points
HealthScoreValue_UncappedAnomaly(d, data, is_anomaly, anomaly_score) ==
    LET weights == d.config.health_weights
        anomaly_penalty == IF is_anomaly THEN Abs(anomaly_score) * 20 ELSE 0
        metric_penalties ==
            [j \in DOMAIN data.cols |->
                LET metric == data.cols[j]
                    metric_type == _classify_metric_type(metric)
                    weight == IF metric_type \in DOMAIN weights
                              THEN weights[metric_type] ELSE weights["other"]
                IN _calculate_metric_penalty(metric, data.rows[1][metric], metric_type)
                     * weight * 100]
        base_score == 10000 - anomaly_penalty - SumSeq(metric_penalties)
    IN Max(0, Min(10000, base_score))

\* The score before the history is touched: lines 592-614
HealthScoreValue(d, data, is_anomaly, anomaly_score) ==
    LET weights == d.config.health_weights
        anomaly_penalty == IF is_anomaly THEN Min(3000, Abs(anomaly_score) * 20) ELSE 0
        metric_penalties ==
            [j \in DOMAIN data.cols |->
                LET metric == data.cols[j]
                    metric_type == _classify_metric_type(metric)
                    weight == IF metric_type \in DOMAIN weights
                              THEN weights[metric_type] ELSE weights["other"]
                IN _calculate_metric_penalty(metric, data.rows[1][metric], metric_type)
                     * weight * 100]
        base_score == 10000 - anomaly_penalty - SumSeq(metric_penalties)
    IN Max(0, Min(10000, base_score))

\* Variant: the score returned is averaged with the latest history entry
_calculate_health_score_Smoothed(d, data, is_anomaly, anomaly_score) ==
    LET raw == HealthScoreValue(d, data, is_anomaly, anomaly_score)
        health_score == IF d.health_score_history = <<>> THEN raw
                        ELSE (raw + d.health_score_history[Len(d.health_score_history)]) \div 2
    IN [score |-> health_score,
        det |-> [d EXCEPT !.health_score_history =
                    TailN(Append(@, health_score), HistoryLimit)]]

\* Variant: a full history keeps its oldest entries and drops the new score
_calculate_health_score_KeepOldest(d, data, is_anomaly, anomaly_score) ==
    LET health_score == HealthScoreValue(d, data, is_anomaly, anomaly_score)
    IN [score |-> health_score,
        det |-> [d EXCEPT !.health_score_history =
                    SubSeq(Append(@, health_score), 1,
                           Min(Len(@) + 1, HistoryLimit))]]

\* _calculate_health_score: the score, appended to the bounded history
_calculate_health_score(d, data, is_anomaly, anomaly_score) ==
    LET health_score == HealthScoreValue(d, data, is_anomaly, anomaly_score)
    IN [score |-> health_score,
        det |-> [d EXCEPT !.health_score_history =
                    TailN(Append(@, health_score), HistoryLimit)]]

\* Variant: only a scaled value above 4.0 in size is severe
_calculate_severity_Lenient(scaled_value) ==
    LET abs_value == Abs(scaled_value)
    IN IF abs_value > 40 THEN "severe"
       ELSE IF abs_value > 20 THEN "moderate"
       ELSE IF abs_value > 10 THEN "mild"
       ELSE "normal"

\* _calculate_severity, on a scaled value in tenths
_calculate_severity(scaled_value) ==
    LET abs_value == Abs(scaled_value)
    IN IF abs_value > 30 THEN "severe"
       ELSE IF abs_value > 20 THEN "moderate"
       ELSE IF abs_value > 10 THEN "mild"
       ELSE "normal"

\* _get_metric_status, on a scaled value in tenths
_get_metric_status(scaled_value) ==
    IF scaled_value > 20 THEN "high"
    ELSE IF scaled_value < -20 THEN "low"
    ELSE "normal"

\* _analyze_individual_metrics: the details of every column of the cleaned row
_analyze_individual_metrics(data, scaled_data) ==
    [metric \in Range(data.cols) |->
        LET i == CHOOSE j \in DOMAIN data.cols : data.cols[j] = metric
            scaled_value == scaled_data[i]
        IN [current_value |-> data.rows[1][metric],
            scaled_value |-> scaled_value,
            is_outlier |-> Abs(scaled_value) > 20,
            severity |-> _calculate_severity(scaled_value),
            status |-> _get_metric_status(scaled_value)]]

\* LinearRegression.predict of a fitted regressor on one window: a fixed
\* linear map of the window that weighs its later positions more
RegressorPredict(tp, window) ==
    SumSeq([j \in DOMAIN window |-> j * window[j].v]) \div 15

\* predict raises on an unfitted regressor and on NaN in the window
PredictRaises(tp, window) ==
    ~tp.fitted \/ \E j \in DOMAIN window : window[j].k # "num"

\* Variant: the window grows, its oldest value is never dropped
RECURSIVE Rollout_Growing(_, _, _, _)
Rollout_Growing(tp, current_window, future_predictions, remaining) ==
    IF remaining = 0 \/ PredictRaises(tp, current_window) THEN future_predictions
    ELSE LET next_pred == RegressorPredict(tp, current_window)
         IN Rollout_Growing(tp, Append(current_window, Num(next_pred)),
                            Append(future_predictions, next_pred), remaining - 1)

\* The loop of _predict_trends over range(prediction_points): predict, record,
\* slide the window; a prediction error ends the loop
RECURSIVE Rollout(_, _, _, _)
Rollout(tp, current_window, future_predictions, remaining) ==
    IF remaining = 0 \/ PredictRaises(tp, current_window) THEN future_predictions
    ELSE LET next_pred == RegressorPredict(tp, current_window)
         IN Rollout(tp, Append(Tail(current_window), Num(next_pred)),
                    Append(future_predictions, next_pred), remaining - 1)

\* n^2 times the sum of squared deviations from the mean
Deviation(vals) ==
    LET n == Len(vals)
        total == SumSeq(vals)
    IN SumSeq([i \in DOMAIN vals |-> (n * vals[i] - total) * (n * vals[i] - total)])

\* the integer square root of v, known to lie in low..high
RECURSIVE SqrtBetween(_, _, _)
SqrtBetween(v, low, high) ==
    IF low >= high THEN low
    ELSE LET middle == (low + high + 1) \div 2
         IN IF middle * middle <= v THEN SqrtBetween(v, middle, high)
            ELSE SqrtBetween(v, low, middle - 1)

\* np.std (population), in hundredths
NpStd(vals) ==
    IF vals = <<>> THEN 0
    ELSE LET cube == Len(vals) * Len(vals) * Len(vals)
             q == Deviation(vals)
         IN SqrtBetween((q \div cube) * 10000 + ((q % cube) * 10000) \div cube,
                        0, 46340)

\* _calculate_trend_direction: the sign of the least-squares slope beyond 0.1
_calculate_trend_direction(predictions) ==
    IF Len(predictions) < 2 THEN "stable"
    ELSE LET n == Len(predictions)
             sx == SumSeq([i \in 1..n |-> i - 1])
             sxx == SumSeq([i \in 1..n |-> (i - 1) * (i - 1)])
             sxy == SumSeq([i \in 1..n |-> (i - 1) * predictions[i]])
             num == n * sxy - sx * SumSeq(predictions)
             den == n * sxx - sx * sx
         IN IF 10 * num > den THEN "rising"
            ELSE IF 10 * num < -den THEN "falling"
            ELSE "stable"

\* _calculate_prediction_confidence, in hundredths
_calculate_prediction_confidence(historical, predictions) ==
    LET historical_std == NpStd(historical)
        prediction_std == IF Len(predictions) > 1 THEN NpStd(predictions) ELSE 0
    IN IF Deviation(historical) = 0 THEN 90
       ELSE Max(10, Min(90, 10000 \div (100 + historical_std + prediction_std)))

\* pd.concat([training_data_cache.tail(10), data])[metric].values: a column
\* that one of the two tables lacks is NaN in its rows
CombinedValues(d, data, metric) ==
    LET cache == d.training_data_cache
        cache_tail == TailN(cache.rows, 10)
    IN [i \in DOMAIN cache_tail |->
           IF metric \in Range(cache.cols) THEN cache_tail[i][metric] ELSE NaN]
       \o [i \in DOMAIN data.rows |->
             IF metric \in Range(data.cols) THEN data.rows[i][metric] ELSE NaN]

\* the loop's outcome for one metric
Forecast(d, data, metric) ==
    LET values == CombinedValues(d, data, metric)
        recent_values == TailN(values, window_size)
    IN Rollout(d.trend_predictor, recent_values, <<>>, d.config.prediction_points)

\* _predict_trends: an entry for every monitored metric with at least
\* window_size values and at least one forecast
_predict_trends(d, data) ==
    IF ~d.trend_predictor.present THEN <<>>
    ELSE LET cache == d.training_data_cache
             Predicted ==
                 {metric \in Range(d.metrics_to_monitor) :
                     /\ metric \in Range(cache.cols) \cup Range(data.cols)
                     /\ Len(CombinedValues(d, data, metric)) >= window_size
                     /\ Forecast(d, data, metric) # <<>>}
         IN [metric \in Predicted |->
                LET recent_values ==
                        TailN(CombinedValues(d, data, metric), window_size)
                    future_predictions == Forecast(d, data, metric)
                IN [values |-> future_predictions,
                    trend |-> _calculate_trend_direction(future_predictions),
                    confidence |->
                        _calculate_prediction_confidence(
                            [j \in DOMAIN recent_values |-> recent_values[j].v],
                            future_predictions)]]

\* _evaluate_metrics_status: the first row's value of every column against
\* the mean and the sample standard deviation of the cached column, with
\* z > k decided as (n*value - sum)^2 * (n - 1) > k^2 * Deviation
_evaluate_metrics_status(d, data) ==
    [metric \in Range(data.cols) |->
        LET value == data.rows[1][metric]
            cache == d.training_data_cache
        IN IF value.k = "nan" THEN "no_data"
           ELSE IF value.k = "inf" THEN "bad_data"
           ELSE IF ~FrameEmpty(cache) /\ metric \in Range(cache.cols)
                THEN LET historical_values ==
                             [i \in DOMAIN cache.rows |-> cache.rows[i][metric].v]
                         n == Len(historical_values)
                         q == Deviation(historical_values)
                         gap == n * value.v - SumSeq(historical_values)
                     IN IF n >= 2 /\ q > 0
                        THEN IF gap * gap * (n - 1) > 4 * q THEN "abnormal"
                             ELSE IF gap * gap * (n - 1) > q THEN "warning"
                             ELSE "normal"
                        ELSE "normal"
                ELSE "pending"]

\* result[key] = value
WithKey(result, key, value) ==
    [k \in DOMAIN result \cup {key} |-> IF k = key THEN value ELSE result[k]]

\* The result dictionary as detect creates it (lines 356-365)
NewResult(t) ==
    [is_anomaly |-> FALSE, anomaly_score |-> 0, anomaly_details |-> <<>>,
     health_score |-> 10000, confidence |-> 0, timestamp |-> t, error |-> ""]

\* A detect call that has returned
DetectReturn(d, result, failed, used) ==
    [det |-> d, result |-> result, raised |-> FALSE, failed |-> failed, used |-> used]

\* Variant: a failed detection marks the detector as not trained
DetectExcept_Untrains(d, result, e) ==
    [det |-> [d EXCEPT !.is_trained = FALSE],
     result |-> [result EXCEPT !.error = e], raised |-> FALSE,
     failed |-> TRUE, used |-> {}]

\* Variant: the exception leaves detect
DetectExcept_Propagates(d, result, e) ==
    [det |-> d, result |-> [result EXCEPT !.error = e], raised |-> TRUE,
     failed |-> TRUE, used |-> {}]

\* except Exception as e: result['error'] = str(e)     (lines 417-419)
DetectExcept(d, result, e) ==
    DetectReturn(d, [result EXCEPT !.error = e], TRUE, {})

\* The artifacts a detection computed its scores from
UsedArtifacts(d, scores) ==
    {[part |-> "scaler", run |-> d.scaler.run]}
      \cup {[part |-> a, run |-> d[a].run] : a \in DOMAIN scores}

\* Variant: readiness judged by the presence of a scaler
ModelNotReady_NoScaler(d) == ~d.scaler.present

\* if not self.is_trained                               (line 368)
ModelNotReady(d) == ~d.is_trained

detect(d, current_data, t) ==
    LET result == NewResult(t)
    IN IF ModelNotReady(d)
       THEN DetectReturn(d, [result EXCEPT !.error = "model not trained"], TRUE, {})
       ELSE LET v == _validate_data(d, current_data)
            IN IF ~v.ok THEN DetectExcept(d, result, v.exc)
               ELSE IF TransformRaises(d.scaler, v.val)
                    THEN DetectExcept(d, result, "ValueError: scaler transform")
               ELSE
                 LET data_cleaned == v.val
                     scaled_data == ScaledRow(d.scaler, data_cleaned)
                     anomaly_scores == _multi_algorithm_detection(d, scaled_data)
                     final_score == _fusion_anomaly_scores(anomaly_scores)
                     is_anomaly == final_score < d.config.anomaly_threshold
                     h == _calculate_health_score(d, data_cleaned, is_anomaly,
                                                  final_score)
                     d2 == [h.det EXCEPT !.n_detection_times =
                               Min(HistoryLimit, @ + 1)]
                     scored ==
                       [result EXCEPT !.anomaly_score = final_score,
                                      !.is_anomaly = is_anomaly,
                                      !.confidence = _calculate_confidence(anomaly_scores),
                                      !.anomaly_details =
                                          _analyze_individual_metrics(data_cleaned,
                                                                      scaled_data),
                                      !.health_score = h.score]
                     predicted ==
                       IF h.det.trend_predictor.present
                       THEN WithKey(scored, "predictions",
                                    _predict_trends(h.det, data_cleaned))
                       ELSE scored
                 IN DetectReturn(d2,
                       WithKey(predicted, "metrics_status",
                               _evaluate_metrics_status(h.det, data_cleaned)),
                       FALSE, UsedArtifacts(d, anomaly_scores))

----------------------------------------------------------------------------
(* update_config, clear_cache *)

critical_params == {"isolation_forest", "elliptic_envelope", "scaler_type"}

\* Variant: any update marks the detector as not trained
update_config_AnyKey(d, new_config) ==
    [d EXCEPT !.config = _deep_update_dict(d.config, new_config),
              !.is_trained = FALSE]

update_config(d, new_config) ==
    [d EXCEPT !.config = _deep_update_dict(d.config, new_config),
              !.is_trained = IF (DOMAIN new_config) \cap critical_params # {}
                             THEN FALSE ELSE @]

clear_cache(d) ==
    [d EXCEPT !.training_data_cache = EmptyFrame,
              !.health_score_history = <<>>,
              !.n_detection_times = 0,
              !.n_training_times = 0]

----------------------------------------------------------------------------
(* Construction over a persisted bundle file *)

\* bool(obj) of a loaded artifact: None (a key that is missing or holds None)
\* is false, an object is true
Truthy(m) == m.present

\* Variant: last_train_time is not restored
_load_models_NoTime(d, dk) ==
    IF dk.kind # "bundle" THEN d
    ELSE LET model_data == dk.model_data
             loaded == [d EXCEPT !.isolation_forest = model_data.isolation_forest,
                                 !.elliptic_envelope = model_data.elliptic_envelope,
                                 !.trend_predictor = model_data.trend_predictor,
                                 !.scaler = model_data.scaler,
                                 !.training_data_cache = model_data.training_data_cache]
         IN IF Truthy(loaded.isolation_forest) /\ Truthy(loaded.scaler)
            THEN [loaded EXCEPT !.is_trained = TRUE]
            ELSE loaded

\* _load_models: no file, or a file pickle.load cannot read, leaves the
\* detector as it is; otherwise six fields are assigned from the dictionary
\* and then the completeness test decides is_trained
_load_models(d, dk) ==
    IF dk.kind = "none" THEN d
    ELSE IF dk.kind = "corrupt" THEN d
    ELSE LET model_data == dk.model_data
             loaded == [d EXCEPT !.isolation_forest = model_data.isolation_forest,
                                 !.elliptic_envelope = model_data.elliptic_envelope,
                                 !.trend_predictor = model_data.trend_predictor,
                                 !.scaler = model_data.scaler,
                                 !.last_train_time = model_data.last_train_time,
                                 !.training_data_cache = model_data.training_data_cache]
         IN IF Truthy(loaded.isolation_forest) /\ Truthy(loaded.scaler)
            THEN [loaded EXCEPT !.is_trained = TRUE]
            ELSE loaded

\* The constructor, over the file dk under model_path
__init__(metrics_to_monitor, config, dk) ==
    _load_models(NewDetector(metrics_to_monitor, config), dk)

----------------------------------------------------------------------------
(* Inputs *)

Nominal == [m \in {TempMetric, CtMetric, OtherColumn} |->
              CASE m = TempMetric -> 75 [] m = CtMetric -> 25 [] OTHER -> 1]
Spread == [m \in {TempMetric, CtMetric, OtherColumn} |->
              CASE m = TempMetric -> 15 [] m = CtMetric -> 2 [] OTHER -> 1]

\* Training tables
CorpusEmpty == Frame(Metrics, 0, Nominal, Spread)
CorpusUnmonitored == Frame(<<OtherColumn>>, 8, Nominal, Spread)
CorpusAllNan == WithConstant(Frame(Metrics, 8, Nominal, Spread), TempMetric, NaN)
CorpusDirtyFew == WithCells(Frame(Metrics, 8, Nominal, Spread), 5, CtMetric, Inf)
CorpusGood == WithCells(Frame(Metrics, 10, Nominal, Spread), 2, CtMetric, NaN)
CorpusLong == Frame(Metrics, 25, Nominal, Spread)
CorpusDegenerate == WithConstant(Frame(Metrics, 8, Nominal, Spread), TempMetric, Num(75))
CorpusStrings == WithCells(Frame(Metrics, 8, Nominal, Spread), 1, CtMetric, Str)
CorpusTempOnly == Frame(<<TempMetric>>, 8, Nominal, Spread)

CorpusNames == {"empty", "unmonitored", "all_nan", "dirty_few", "good",
                "degenerate", "strings", "temp_only"}

Corpus(name) ==
    CASE name = "empty" -> CorpusEmpty
      [] name = "unmonitored" -> CorpusUnmonitored
      [] name = "all_nan" -> CorpusAllNan
      [] name = "dirty_few" -> CorpusDirtyFew
      [] name = "good" -> CorpusGood
      [] name = "long" -> CorpusLong
      [] name = "degenerate" -> CorpusDegenerate
      [] name = "strings" -> CorpusStrings
      [] OTHER -> CorpusTempOnly

OneRow(cols, vals) == [cols |-> cols, rows |-> <<[c \in Range(cols) |-> vals[c]]>>]

Reading(temp, ct) ==
    OneRow(Metrics, [m \in Range(Metrics) |-> IF m = TempMetric THEN temp ELSE ct])

SampleNames == {"nominal", "outlier", "empty", "unmonitored", "nan",
                "temp_only"}

\* Current-data tables of one row
Sample(name) ==
    CASE name = "nominal" -> Reading(Num(75), Num(25))
      [] name = "outlier" -> Reading(Num(250), Num(25))
      [] name = "empty" -> CorpusEmpty
      [] name = "unmonitored" -> Frame(<<OtherColumn>>, 1, Nominal, Spread)
      [] name = "nan" -> Reading(NaN, Num(25))
      [] name = "warm" -> Reading(Num(90), Num(25))
      [] name = "hot" -> Reading(Num(135), Num(25))
      [] name = "very_hot" -> Reading(Num(175), Num(25))
      [] name = "cold" -> Reading(Num(-30), Num(25))
      [] name = "ct_mild" -> Reading(Num(75), Num(33))
      [] name = "ct_warning" -> Reading(Num(75), Num(45))
      [] OTHER -> OneRow(<<TempMetric>>, [m \in {TempMetric} |-> Num(75)])

----------------------------------------------------------------------------
(* The state machine *)

\* What the caller of the last completed call saw
NoCall == [op |-> "none", arg |-> "", force |-> FALSE, ret |-> FALSE,
           raised |-> FALSE, skipped |-> FALSE, was_trained |-> FALSE,
           failed |-> FALSE, ee_failed |-> FALSE, saved |-> "no", result |-> NewResult(0), used |-> {},
           keys |-> {}]

TrainCall(name, c) ==
    [NoCall EXCEPT !.op = "train", !.arg = name, !.force = c.force, !.ret = c.ret,
                   !.raised = c.raised, !.skipped = c.skipped,
                   !.was_trained = c.was_trained,
                   !.failed = (c.exc # ""), !.ee_failed = c.ee_failed,
                   !.saved = c.saved]

DetectCall(name, d, r) ==
    [NoCall EXCEPT !.op = "detect", !.arg = name, !.raised = r.raised,
                   !.was_trained = d.is_trained,
                   !.failed = r.failed, !.result = r.result, !.used = r.used]

\* The constructor, with no bundle file under model_path
Init ==
    /\ det \in {NewDetector(Metrics, config) : config \in UserConfigs}
    /\ disk = NoFile
    /\ now = 0
    /\ nruns = 0
    /\ ncalls = 0
    /\ last = NoCall
    /\ tctx = IdleCtx

TrainModel(name, force_retrain, save) ==
    LET begun == TrainBegin(det, Corpus(name), force_retrain, now, nruns + 1, save)
        s == train_model(det, disk, Corpus(name), force_retrain, now, nruns + 1, save)
    IN /\ tctx.pc = "idle"
       /\ ncalls < MaxCalls
       \* the outcome of saving is an input only of a call that gets to save
       /\ begun.pc # "scaler_new" => save = "ok"
       /\ ncalls' = ncalls + 1
       /\ det' = s.det
       /\ disk' = s.disk
       /\ nruns' = IF begun.pc = "scaler_new" THEN nruns + 1 ELSE nruns
       /\ last' = TrainCall(name, s.ctx)
       /\ UNCHANGED <<now, tctx>>

Detect(name) ==
    LET r == detect(det, Sample(name), now)
    IN /\ ncalls < MaxCalls
       /\ ncalls' = ncalls + 1
       /\ det' = r.det
       /\ last' = DetectCall(name, det, r)
       /\ UNCHANGED <<disk, now, nruns, tctx>>

UpdateConfig(new_config) ==
    /\ tctx.pc = "idle"
    /\ ncalls < MaxCalls
    /\ ncalls' = ncalls + 1
    /\ det' = update_config(det, new_config)
    /\ last' = [NoCall EXCEPT !.op = "update_config", !.was_trained = det.is_trained,
                              !.keys = DOMAIN new_config]
    /\ UNCHANGED <<disk, now, nruns, tctx>>

ClearCache ==
    /\ tctx.pc = "idle"
    /\ ncalls < MaxCalls
    /\ ncalls' = ncalls + 1
    /\ det' = clear_cache(det)
    /\ last' = [NoCall EXCEPT !.op = "clear_cache", !.was_trained = det.is_trained]
    /\ UNCHANGED <<disk, now, nruns, tctx>>

Tick ==
    /\ ncalls < MaxCalls
    /\ ncalls' = ncalls + 1
    /\ now' = now + TickHours
    /\ UNCHANGED <<det, disk, nruns, last, tctx>>

Next ==
    \/ \E name \in CorpusNames, force_retrain \in BOOLEAN, save \in SaveOutcomes :
          TrainModel(name, force_retrain, save)
    \/ \E name \in SampleNames : Detect(name)
    \/ \E new_config \in ConfigUpdates : UpdateConfig(new_config)
    \/ ClearCache
    \/ Tick

Spec == Init /\ [][Next]_vars

----------------------------------------------------------------------------
(* train_model and detect running as interleaved activities: train_model *)
(* advances one statement at a time, detect runs between its statements. *)

ConcCorpusNames == {"good", "degenerate", "dirty_few"}
ConcSampleNames == {"nominal", "outlier", "empty"}

TrainStart(name, force_retrain) ==
    LET begun == TrainBegin(det, Corpus(name), force_retrain, now, nruns + 1, "ok")
    IN /\ tctx.pc = "idle"
       /\ ncalls < MaxCalls
       /\ ncalls' = ncalls + 1
       /\ nruns' = IF begun.pc = "scaler_new" THEN nruns + 1 ELSE nruns
       /\ tctx' = IF begun.pc = "done" THEN IdleCtx ELSE [begun EXCEPT !.arg = name]
       /\ last' = IF begun.pc = "done" THEN TrainCall(name, begun) ELSE last
       /\ UNCHANGED <<det, disk, now>>

TrainAdvance ==
    LET s == TrainStep(det, disk, tctx, now)
    IN /\ tctx.pc \notin {"idle", "done"}
       /\ det' = s.det
       /\ disk' = s.disk
       /\ tctx' = IF s.ctx.pc = "done" THEN IdleCtx ELSE s.ctx
       /\ last' = IF s.ctx.pc = "done" THEN TrainCall(tctx.arg, s.ctx) ELSE last
       /\ UNCHANGED <<now, nruns, ncalls>>

NextConc ==
    \/ \E name \in ConcCorpusNames, force_retrain \in BOOLEAN :
          TrainStart(name, force_retrain)
    \/ TrainAdvance
    \/ \E name \in ConcSampleNames : Detect(name)
    \/ Tick

SpecConc == Init /\ [][NextConc]_vars

----------------------------------------------------------------------------
(* Detections on detectors with the health weights of the "industrial"      *)
(* preset and with the default ones, over one and over two metrics.          *)

HealthConfigs ==
    [industrial |-> [min_data_points |-> 5, cache_size |-> 3,
                     health_weights |-> [temperature |-> 5, current |-> 3,
                                         pressure |-> 2]],
     plain |-> [min_data_points |-> 5, cache_size |-> 3]]

HealthCorpusNames == {"good", "degenerate", "temp_only"}
HealthSampleNames == {"nominal", "outlier", "warm", "hot", "very_hot", "cold",
                      "ct_mild", "ct_warning"}

InitHealth ==
    /\ det \in {NewDetector(Metrics, HealthConfigs.industrial),
                 NewDetector(<<TempMetric>>, HealthConfigs.industrial),
                 NewDetector(<<TempMetric>>, HealthConfigs.plain)}
    /\ disk = NoFile
    /\ now = 0
    /\ nruns = 0
    /\ ncalls = 0
    /\ last = NoCall
    /\ tctx = IdleCtx

NextHealth ==
    \/ \E name \in HealthCorpusNames : TrainModel(name, TRUE, "ok")
    \/ \E name \in HealthSampleNames : Detect(name)

SpecHealth == InitHealth /\ [][NextHealth]_vars

----------------------------------------------------------------------------
(* A detector in service: trained once, then used for a number of           *)
(* detections before the calls that are observed.                            *)

PriorDetections == {0, 98, 99, 100}
HistorySampleNames == {"nominal", "hot", "outlier"}

\* the sample of the n-th earlier detection
Pattern(n) ==
    CASE n % 3 = 1 -> "outlier"
      [] n % 3 = 2 -> "hot"
      [] OTHER -> "nominal"

InService ==
    train_model(NewDetector(Metrics, HealthConfigs.industrial), NoFile,
                Corpus("good"), FALSE, 0, 1, "ok")

\* the detector after the earlier detections first .. final, in that order
RECURSIVE ReplayRange(_, _, _)
ReplayRange(d, first, final) ==
    IF first > final THEN d
    ELSE IF first = final THEN detect(d, Sample(Pattern(first)), 0).det
    ELSE LET middle == (first + final) \div 2
         IN CHOOSE after \in {ReplayRange(half, middle + 1, final) :
                                 half \in {ReplayRange(d, first, middle)}} : TRUE

Replay(d, n) == ReplayRange(d, 1, n)

InitHistory ==
    /\ det \in {Replay(InService.det, n) : n \in PriorDetections}
    /\ disk = InService.disk
    /\ now = 0
    /\ nruns = 1
    /\ ncalls = 0
    /\ last = NoCall
    /\ tctx = IdleCtx

NextHistory ==
    \/ \E name \in HistorySampleNames : Detect(name)
    \/ \E name \in {"good", "degenerate"} : TrainModel(name, TRUE, "ok")
    \/ ClearCache

SpecHistory == InitHistory /\ [][NextHistory]_vars

----------------------------------------------------------------------------
(* Restarts: new detectors constructed over the bundle file that earlier     *)
(* detectors saved, or over a file that was damaged in between.              *)

LoadCorpusNames == {"good", "degenerate"}
LoadMetricLists == {Metrics, <<TempMetric>>}
Damages == {"truncated", "no_scaler", "no_isolation_forest"}

\* A bundle file that is cut short, or that lacks one key
Damaged(dk, damage) ==
    CASE damage = "truncated" -> [dk EXCEPT !.kind = "corrupt"]
      [] damage = "no_scaler" -> [dk EXCEPT !.model_data.scaler = NoScaler]
      [] OTHER -> [dk EXCEPT !.model_data.isolation_forest = NoScorer]

\* The host restarts: EnhancedAnomalyDetector(metrics, config) over the file
Restart(metrics, config) ==
    /\ tctx.pc = "idle"
    /\ ncalls < MaxCalls
    /\ ncalls' = ncalls + 1
    /\ det' = __init__(metrics, config, disk)
    /\ last' = [NoCall EXCEPT !.op = "construct", !.was_trained = det.is_trained]
    /\ UNCHANGED <<disk, now, nruns, tctx>>

\* The file is damaged outside the program
Damage(damage) ==
    /\ disk.kind = "bundle"
    /\ ncalls < MaxCalls
    /\ ncalls' = ncalls + 1
    /\ disk' = Damaged(disk, damage)
    /\ last' = [NoCall EXCEPT !.op = "damage", !.was_trained = det.is_trained]
    /\ UNCHANGED <<det, now, nruns, tctx>>

NextLoad ==
    \/ \E name \in LoadCorpusNames, save \in SaveOutcomes : TrainModel(name, TRUE, save)
    \/ \E metrics \in LoadMetricLists, config \in UserConfigs : Restart(metrics, config)
    \/ \E damage \in Damages : Damage(damage)
    \/ Tick

SpecLoad == Init /\ [][NextLoad]_vars

----------------------------------------------------------------------------
(* Construction through AnomalyDetectorFactory.create_detector or directly.  *)
(* Contamination is in thousandths, max_samples and weights in tenths,       *)
(* thresholds in hundredths.                                                  *)

DetectorTypes == {"industrial", "sensitive", "robust", "standard"}

\* base_config of create_detector for a detector type
Preset(detector_type) ==
    CASE detector_type = "industrial" ->
            [isolation_forest |-> [contamination |-> 5, n_estimators |-> 300,
                                   max_samples |-> 8],
             min_data_points |-> 200,
             retrain_interval_hours |-> 12,
             health_weights |-> [temperature |-> 5, current |-> 3, pressure |-> 2]]
      [] detector_type = "sensitive" ->
            [isolation_forest |-> [contamination |-> 20, n_estimators |-> 100],
             anomaly_threshold |-> -30,
             min_data_points |-> 50]
      [] detector_type = "robust" ->
            [isolation_forest |-> [contamination |-> 1, n_estimators |-> 500],
             anomaly_threshold |-> -80,
             min_data_points |-> 500]
      [] OTHER -> <<>>

\* Custom configurations handed to the factory; <<>> stands for None
FactoryConfigs ==
    { <<>>,
      [min_data_points |-> 5],
      [health_weights |-> [other |-> 0]],
      [anomaly_threshold |-> 250, health_weights |-> [pressure |-> 7]] }

\* create_detector: dict.update of the preset, then the constructor
create_detector(detector_type, metrics, config, dk) ==
    __init__(metrics, MergeDict(Preset(detector_type), config), dk)

CreateDetector(detector_type, metrics, config) ==
    /\ tctx.pc = "idle"
    /\ ncalls < MaxCalls
    /\ ncalls' = ncalls + 1
    /\ det' = create_detector(detector_type, metrics, config, disk)
    /\ last' = [NoCall EXCEPT !.op = "create_detector", !.arg = detector_type,
                              !.was_trained = det.is_trained]
    /\ UNCHANGED <<disk, now, nruns, tctx>>

InitFactory ==
    /\ det = NewDetector(Metrics, <<>>)
    /\ disk = NoFile
    /\ now = 0
    /\ nruns = 0
    /\ ncalls = 0
    /\ last = NoCall
    /\ tctx = IdleCtx

NextFactory ==
    \/ \E detector_type \in DetectorTypes, metrics \in LoadMetricLists,
          config \in FactoryConfigs : CreateDetector(detector_type, metrics, config)
    \/ \E metrics \in LoadMetricLists, config \in UserConfigs \cup FactoryConfigs :
          Restart(metrics, config)

SpecFactory == InitFactory /\ [][NextFactory]_vars

----------------------------------------------------------------------------
(* Retraining on corpora of different lengths, with min_data_points below    *)
(* the number of rows the trend regressor needs, and detections in between.   *)

RetrainCorpusNames == {"long", "good", "degenerate", "dirty_few"}
RetrainSampleNames == {"nominal", "outlier", "empty", "temp_only"}

NextRetrain ==
    \/ \E name \in RetrainCorpusNames, force_retrain \in BOOLEAN :
          TrainModel(name, force_retrain, "ok")
    \/ \E name \in RetrainSampleNames : Detect(name)
    \/ Tick

RetrainConfigs ==
    UserConfigs \cup {[min_data_points |-> 5, cache_size |-> 4, prediction_points |-> 2]}

InitRetrain ==
    /\ det \in {NewDetector(Metrics, config) : config \in RetrainConfigs}
    /\ disk = NoFile
    /\ now = 0
    /\ nruns = 0
    /\ ncalls = 0
    /\ last = NoCall
    /\ tctx = IdleCtx

SpecRetrain == InitRetrain /\ [][NextRetrain]_vars

----------------------------------------------------------------------------
(* Trend forecasts of detectors trained once, with sample caches shorter     *)
(* and longer than the forecast window.                                       *)

TrendConfigs ==
    {[min_data_points |-> 5, cache_size |-> cache_size,
      prediction_points |-> prediction_points] :
        cache_size \in {3, 4, 12}, prediction_points \in {2, 7}}

TrendSampleNames == HealthSampleNames \cup {"temp_only"}

InitTrend ==
    /\ \E metrics \in LoadMetricLists, config \in TrendConfigs,
          name \in {"long", "good"} :
          LET s == train_model(NewDetector(metrics, config), NoFile, Corpus(name),
                               FALSE, 0, 1, "ok")
          IN det = s.det /\ disk = s.disk
    /\ now = 0
    /\ nruns = 1
    /\ ncalls = 0
    /\ last = [op |-> "none"]
    /\ tctx = IdleCtx

PredictTrends(name) ==
    LET v == _validate_data(det, Sample(name))
    IN /\ last.op = "none"
       /\ v.ok
       /\ last' = [op |-> "_predict_trends", arg |-> name,
                   ret |-> _predict_trends(det, v.val)]
       /\ UNCHANGED <<det, disk, now, nruns, ncalls, tctx>>

NextTrend == \E name \in TrendSampleNames : PredictTrends(name)

SpecTrend == InitTrend /\ [][NextTrend]_vars

----------------------------------------------------------------------------
(* The prediction confidence on small windows and forecast lists.            *)

MaxForecasts == 3
SeriesValues == {70, 75, 76}

PredictionConfidence(historical, predictions) ==
    /\ last.op = "none"
    /\ last' = [op |-> "_calculate_prediction_confidence",
                historical |-> historical, predictions |-> predictions,
                ret |-> _calculate_prediction_confidence(historical, predictions)]
    /\ UNCHANGED <<det, disk, now, nruns, ncalls, tctx>>

NextConfidence ==
    \E historical \in [1..window_size -> SeriesValues],
       predictions \in UNION {[1..n -> SeriesValues] : n \in 1..MaxForecasts} :
       PredictionConfidence(historical, predictions)

InitConfidence ==
    /\ det = NewDetector(Metrics, <<>>)
    /\ disk = NoFile
    /\ now = 0
    /\ nruns = 0
    /\ ncalls = 0
    /\ last = [op |-> "none"]
    /\ tctx = IdleCtx

SpecConfidence == InitConfidence /\ [][NextConfidence]_vars

----------------------------------------------------------------------------
(* Detectors constructed from one list object of the caller.  Here det is    *)
(* the heap: the detector objects by name, the caller's list, and the names  *)
(* of the detectors whose metrics_to_monitor is that very list object        *)
(* (self.metrics_to_monitor = metrics_to_monitor, line 63); a detector       *)
(* constructed from a copy of the list is not among them.                    *)

DetectorNames == {"first", "second"}
MetricNames == {CtMetric}

\* the objects that share the list object of detector x
SharingWith(h, x) == IF x \in h.aliases THEN h.aliases ELSE {x}

\* list.append / list.remove on the list object of detector x: every holder
\* of the object sees the new contents
MutateList(h, x, contents) ==
    [h EXCEPT !.objs = [y \in DOMAIN h.objs |->
                          IF y \in SharingWith(h, x)
                          THEN [h.objs[y] EXCEPT !.metrics_to_monitor = contents]
                          ELSE h.objs[y]],
              !.caller = IF x \in h.aliases THEN contents ELSE @]

\* Variant: the list is changed but the detector stays marked as trained
add_metric_KeepsTrained(h, x, metric_name) ==
    LET metrics == h.objs[x].metrics_to_monitor
    IN IF metric_name \notin Range(metrics)
       THEN MutateList(h, x, Append(metrics, metric_name))
       ELSE h

add_metric(h, x, metric_name) ==
    LET metrics == h.objs[x].metrics_to_monitor
    IN IF metric_name \notin Range(metrics)
       THEN [MutateList(h, x, Append(metrics, metric_name))
                EXCEPT !.objs[x].is_trained = FALSE]
       ELSE h

\* list.remove: the first occurrence is taken out
RemoveFirst(metrics, metric_name) ==
    LET k == CHOOSE i \in DOMAIN metrics :
                 /\ metrics[i] = metric_name
                 /\ \A j \in 1..(i - 1) : metrics[j] # metric_name
    IN SubSeq(metrics, 1, k - 1) \o SubSeq(metrics, k + 1, Len(metrics))

remove_metric(h, x, metric_name) ==
    LET metrics == h.objs[x].metrics_to_monitor
    IN IF metric_name \in Range(metrics)
       THEN [MutateList(h, x, RemoveFirst(metrics, metric_name))
                EXCEPT !.objs[x].is_trained = FALSE]
       ELSE h

InitMetrics ==
    /\ \E aliases \in {DetectorNames, {"first"}}, config \in UserConfigs :
          det = [objs |-> [x \in DetectorNames |-> NewDetector(Metrics, config)],
                 caller |-> Metrics,
                 aliases |-> aliases]
    /\ disk = NoFile
    /\ now = 0
    /\ nruns = 0
    /\ ncalls = 0
    /\ last = [op |-> "none", who |-> "", arg |-> "", ret |-> FALSE]
    /\ tctx = IdleCtx

AddMetric(x, metric_name) ==
    /\ ncalls < MaxCalls
    /\ ncalls' = ncalls + 1
    /\ det' = add_metric(det, x, metric_name)
    /\ last' = [op |-> "add_metric", who |-> x, arg |-> metric_name, ret |-> FALSE]
    /\ UNCHANGED <<disk, now, nruns, tctx>>

RemoveMetric(x, metric_name) ==
    /\ ncalls < MaxCalls
    /\ ncalls' = ncalls + 1
    /\ det' = remove_metric(det, x, metric_name)
    /\ last' = [op |-> "remove_metric", who |-> x, arg |-> metric_name, ret |-> FALSE]
    /\ UNCHANGED <<disk, now, nruns, tctx>>

\* train_model(force_retrain=True) of detector x
TrainOf(x, name) ==
    LET s == train_model(det.objs[x], disk, Corpus(name), TRUE, now, nruns + 1, "ok")
    IN /\ ncalls < MaxCalls
       /\ ncalls' = ncalls + 1
       /\ det' = [det EXCEPT !.objs[x] = s.det]
       /\ disk' = s.disk
       /\ nruns' = nruns + 1
       /\ last' = [op |-> "train", who |-> x, arg |-> name, ret |-> s.ctx.ret]
       /\ UNCHANGED <<now, tctx>>

NextMetrics ==
    \/ \E x \in DetectorNames, metric_name \in MetricNames : AddMetric(x, metric_name)
    \/ \E x \in DetectorNames, metric_name \in MetricNames : RemoveMetric(x, metric_name)
    \/ \E x \in DetectorNames, name \in {"good", "dirty_few"} : TrainOf(x, name)

SpecMetrics == InitMetrics /\ [][NextMetrics]_vars

----------------------------------------------------------------------------
(* The sample validator on small tables of finite, NaN and infinite cells.   *)

MaxRows == 2
TableColumns == {<<>>, <<TempMetric>>, <<OtherColumn>>, <<TempMetric, CtMetric>>,
                 <<OtherColumn, TempMetric>>, <<CtMetric, OtherColumn, TempMetric>>}
CellValues == {Num(75), NaN, Inf}

Tables ==
    UNION {{[cols |-> cols, rows |-> rows] :
               rows \in UNION {[1..n -> [Range(cols) -> CellValues]] : n \in 0..MaxRows}} :
           cols \in TableColumns}

InitValidate ==
    /\ det \in {NewDetector(metrics, <<>>) : metrics \in LoadMetricLists}
    /\ disk = NoFile
    /\ now = 0
    /\ nruns = 0
    /\ ncalls = 0
    /\ last = [op |-> "none"]
    /\ tctx = IdleCtx

Validate(data) ==
    /\ last.op = "none"
    /\ last' = [op |-> "_validate_data", data |-> data, ret |-> _validate_data(det, data)]
    /\ UNCHANGED <<det, disk, now, nruns, ncalls, tctx>>

NextValidate == \E data \in Tables : Validate(data)

SpecValidate == InitValidate /\ [][NextValidate]_vars

----------------------------------------------------------------------------
(* Properties *)

\* This step is a whole call of train_model / of detect (a clock tick leaves
\* last as it is and moves the clock)
TrainCallStep == ncalls' = ncalls + 1 /\ now' = now /\ last'.op = "train"
DetectCallStep == ncalls' = ncalls + 1 /\ now' = now /\ last'.op = "detect"

\* Rows of a training table that survive cleaning (none when validation fails)
CleanedRowCount(d, data) ==
    LET v == _validate_data(d, data) IN IF v.ok THEN Len(v.val.rows) ELSE 0

FewRows(d, name) == CleanedRowCount(d, Corpus(name)) < d.config.min_data_points

\* Enough cleaned rows, every one of them numeric
EnoughNumericRows(d, name) ==
    LET v == _validate_data(d, Corpus(name))
    IN v.ok /\ Len(v.val.rows) >= d.config.min_data_points /\ IsNumeric(v.val)

\* Trained, and less than the retrain interval has passed since last_train_time
WithinRetrainInterval ==
    det.is_trained /\ det.last_train_time.set
        /\ now - det.last_train_time.t < det.config.retrain_interval_hours

\* C1 (as claimed): a train_model call on a Trained detector that returns
\* False leaves the detector Trained with the scaler, the scorers, the trend
\* regressor, last_train_time and the sample cache it had before the call.
C1_FailedRetrainKeepsBundle ==
    [][(TrainCallStep /\ det.is_trained /\ ~last'.ret)
          => (det'.is_trained /\ Bundle(det') = Bundle(det))]_vars

\* C2: detect on an Untrained detector returns the model-not-ready error
\* result, a failed detection with the default fields, and changes no state
\* of the detector or of its bundle file.
C2_DetectUntrainedNotReady ==
    [][(DetectCallStep /\ ~det.is_trained)
          => /\ last'.failed
             /\ last'.result = [NewResult(now) EXCEPT !.error = "model not trained"]
             /\ det' = det
             /\ disk' = disk]_vars

C2_Witness ==
    /\ last.op = "detect"
    /\ ~last.was_trained
    /\ last.result.error = "model not trained"
    /\ nruns > 0


\* C3 (as claimed): every train_model call on a table with fewer than
\* min_data_points cleaned rows returns False, does not raise and leaves every
\* field of the detector unchanged.
C3_FewRowsReturnFalse ==
    [][(TrainCallStep /\ FewRows(det, last'.arg))
          => (~last'.ret /\ ~last'.raised /\ det' = det /\ disk' = disk)]_vars

\* C3 (amended): such a call never raises and changes no field; it returns
\* False, except that it returns True when the retrain-interval check skips it
\* (detector Trained, interval not elapsed, force_retrain false).
C3_FewRowsNoOp ==
    [][(TrainCallStep /\ FewRows(det, last'.arg))
          => /\ last'.ret = (~last'.force /\ WithinRetrainInterval)
             /\ ~last'.raised
             /\ det' = det
             /\ disk' = disk
             /\ (~det.is_trained => ~det'.is_trained)]_vars

C3_Witness ==
    /\ last.op = "train"
    /\ ~last.ret /\ ~last.failed /\ ~last.skipped
    /\ ~det.is_trained

\* C4 (as claimed): a train_model call that is carried out on a table with at
\* least min_data_points cleaned (numeric) rows returns True and leaves the
\* detector Trained with last_train_time set by the call and with every scorer
\* it holds fitted by this run, whichever scorer failed to fit.
C4_CarriedOutTrainSucceeds ==
    [][(TrainCallStep /\ ~last'.skipped /\ EnoughNumericRows(det, last'.arg))
          => /\ last'.ret
             /\ det'.is_trained
             /\ det'.last_train_time = At(now)
             /\ \A a \in {"isolation_forest", "elliptic_envelope"} :
                   det'[a].present => (det'[a].fitted /\ det'[a].run = nruns')]_vars

\* C5 (as claimed): with train_model and detect interleaved, every detection
\* that computes a result takes it from a scaler and scorers of one fitting run.
C5_DetectUsesOneBundle ==
    (last.op = "detect" /\ ~last.failed)
        => Cardinality({u.run : u \in last.used}) = 1

\* C6: train_model(force_retrain = False) on a Trained detector within the
\* retrain interval returns True and changes nothing; any other call is not
\* skipped, and on enough numeric rows with valid scorer parameters it fits and
\* installs a new bundle stamped with the current time.
C6_SkipOnlyWithinInterval ==
    [][TrainCallStep
          => IF ~last'.force /\ WithinRetrainInterval
             THEN /\ last'.ret /\ last'.skipped
                  /\ det' = det
                  /\ disk' = disk
                  /\ nruns' = nruns
             ELSE /\ ~last'.skipped
                  /\ (EnoughNumericRows(det, last'.arg) /\ ~IsolationForestFitRaises(det))
                       => /\ last'.ret
                          /\ det'.is_trained
                          /\ det'.last_train_time = At(now)
                          /\ det'.scaler.run = nruns + 1
                          /\ det'.isolation_forest.run = nruns + 1]_vars

C6_Witness ==
    /\ last.op = "train"
    /\ last.skipped /\ last.ret
    /\ det.is_trained
    /\ now > det.last_train_time.t

\* Two detect results that agree in every field but the timestamp
SameButTimestamp(r1, r2) ==
    [r1 EXCEPT !.timestamp = 0] = [r2 EXCEPT !.timestamp = 0]

\* C7 (as claimed): detect called twice with the same sample and nothing in
\* between returns identical results (the time stamp of each call aside) and
\* mutates no state of the detector.
C7_DetectTwiceIdentical ==
    \A name \in SampleNames : \A t2 \in {now, now + TickHours} :
        LET r1 == detect(det, Sample(name), now)
            r2 == detect(r1.det, Sample(name), t2)
        IN SameButTimestamp(r1.result, r2.result) /\ r1.det = det /\ r2.det = det

\* C7 (amended): the two results agree in every field but the timestamp, which
\* is the time of each call; detect changes no field of the detector but the
\* health-score history and the detection-time log.
C7_DetectTwiceSameButTimestamp ==
    \A name \in SampleNames : \A t2 \in {now, now + TickHours} :
        LET r1 == detect(det, Sample(name), now)
            r2 == detect(r1.det, Sample(name), t2)
        IN /\ SameButTimestamp(r1.result, r2.result)
           /\ r1.result.timestamp = now /\ r2.result.timestamp = t2
           /\ [r1.det EXCEPT !.health_score_history = det.health_score_history,
                             !.n_detection_times = det.n_detection_times] = det
           /\ ~r1.failed => r1.det.health_score_history # det.health_score_history

C7_Witness ==
    /\ last.op = "detect" /\ ~last.failed
    /\ last.result.timestamp > 0
    /\ Len(det.health_score_history) >= 2
    /\ det.health_score_history[1] = det.health_score_history[2]
    /\ det.health_score_history[2] < 10000

\* C8 (as claimed): neither train_model nor detect raises to its caller; a
\* train_model call in which validation, the scaler or a scorer failed returns
\* False, and a detect call that failed returns a result with an error field.
C8_FailureAlwaysReported ==
    /\ ~last.raised
    /\ (last.op = "train" /\ (last.failed \/ last.ee_failed)) => ~last.ret
    /\ (last.op = "detect" /\ last.failed) => last.result.error # ""

\* C8 (amended): neither call raises; a train_model call stopped by an
\* exception (validation, scaler fit, isolation-forest fit) returns False, a
\* call in which only the elliptic envelope failed to fit goes on and returns
\* True without that scorer, and a detect call that is not ready or is stopped
\* by an exception returns a result with an error field.
C8_NeverRaises ==
    /\ ~last.raised
    /\ (last.op = "train" /\ last.failed) => ~last.ret
    /\ (last.op = "train" /\ last.ee_failed)
          => (last.ret /\ ~last.failed /\ ~det.elliptic_envelope.present)
    /\ (last.op = "detect" /\ last.failed) => last.result.error # ""

\* a detect call on a Trained detector stopped by an exception
C8_Witness ==
    /\ last.op = "detect"
    /\ last.was_trained /\ last.failed
    /\ last.result.error # ""
    /\ ~last.raised

\* C9 (as claimed): a detect call that fails after an earlier detection
\* succeeded returns the latest entry of the health-score history as its
\* health_score, with an error field.
C9_FailedDetectKeepsLastHealth ==
    (last.op = "detect" /\ last.failed /\ det.health_score_history # <<>>)
        => /\ last.result.health_score =
                det.health_score_history[Len(det.health_score_history)]
           /\ last.result.error # ""

\* C10: the health_score of every detect result, failed or not, and every
\* entry of the health-score history lies in [0, 100].
C10_HealthScoreInRange ==
    /\ last.result.health_score \in 0..10000
    /\ \A i \in DOMAIN det.health_score_history :
          det.health_score_history[i] \in 0..10000

\* a detection whose score was cut off at 0, and one cut off at 100
C10_Witness ==
    /\ last.op = "detect" /\ ~last.failed
    /\ last.result.health_score = 0
    /\ \E i \in DOMAIN det.health_score_history : det.health_score_history[i] = 10000

----------------------------------------------------------------------------
(* Properties of construction over a bundle file *)

\* This step constructs a new detector over the bundle file
ConstructStep == ncalls' = ncalls + 1 /\ now' = now /\ last'.op = "construct"

\* The file cannot be read, or lacks the scaler or the isolation forest
BadFile(dk) ==
    \/ dk.kind = "corrupt"
    \/ dk.kind = "bundle" /\ (~dk.model_data.scaler.present
                               \/ ~dk.model_data.isolation_forest.present)

\* The bundle fields held in a file's dictionary
FileBundle(dk) == [k \in DOMAIN Bundle(det) |-> dk.model_data[k]]

\* C11 (as claimed): a detector constructed over a corrupt or partial bundle
\* file is Untrained and every bundle field has its empty initial value.
C11_RejectedBundleNotApplied ==
    (last.op = "construct" /\ BadFile(disk))
        => (~det.is_trained /\ Bundle(det) = Bundle(NewDetector(<<>>, <<>>)))

\* C12 (as claimed): a detector is Trained at construction only when the file
\* is a bundle saved for its own list of monitored metrics.
C12_LoadsOnlyOwnBundle ==
    (last.op = "construct" /\ det.is_trained)
        => /\ disk.kind = "bundle"
           /\ disk.model_data.metrics_to_monitor = det.metrics_to_monitor

\* C13: a detector constructed, with the same metric list, right after a
\* train_model call that succeeded and saved its bundle starts Trained with
\* the scaler, scorers, trend regressor, last_train_time and sample cache the
\* saving detector has after that call.
C13_SaveLoadRoundTrip ==
    [][(/\ ConstructStep
        /\ last.op = "train" /\ last.ret /\ ~last.skipped
        /\ disk.kind = "bundle"
        /\ det'.metrics_to_monitor = det.metrics_to_monitor)
          => (det'.is_trained /\ Bundle(det') = Bundle(det))]_vars

\* a restarted detector that took over a bundle without elliptic envelope,
\* trained after the clock had moved
C13_Witness ==
    /\ last.op = "construct"
    /\ det.is_trained
    /\ disk.kind = "bundle"
    /\ disk.model_data.metrics_to_monitor = det.metrics_to_monitor
    /\ Bundle(det) = FileBundle(disk)
    /\ ~det.elliptic_envelope.present
    /\ det.scaler.fitted /\ det.isolation_forest.fitted
    /\ det.last_train_time.set /\ det.last_train_time.t > 0
    /\ det.training_data_cache # EmptyFrame
    /\ det.n_training_times = 0

\* C14: a train_model call that gets to save its bundle and fails to returns True without raising and
\* leaves the detector exactly as the same call with a successful save does:
\* Trained on the bundle fitted by this run.
C14_SaveFailureKeepsTraining ==
    [][(TrainCallStep /\ last'.saved = "dump_error")
          => /\ last'.ret /\ ~last'.raised /\ ~last'.failed
             /\ det'.is_trained
             /\ det'.last_train_time = At(now)
             /\ det'.scaler.fitted /\ det'.scaler.run = nruns'
             /\ det'.isolation_forest.fitted /\ det'.isolation_forest.run = nruns'
             /\ det' = train_model(det, disk, Corpus(last'.arg), last'.force,
                                   now, nruns + 1, "ok").det]_vars

\* a retrain of a Trained detector whose save failed
C14_Witness ==
    /\ last.op = "train" /\ last.saved = "dump_error"
    /\ last.was_trained
    /\ last.ret
    /\ det.is_trained /\ det.scaler.run = nruns /\ nruns >= 2
    /\ disk.kind = "corrupt"

----------------------------------------------------------------------------
(* The arithmetic of _fusion_anomaly_scores.  The scores and weights are     *)
(* binary floating-point numbers: a decimal literal such as 0.7 is stored as *)
(* the nearest representable number, and every sum, product and quotient is  *)
(* rounded to the nearest representable number (ties to even).  The model    *)
(* keeps this rounding at a reduced precision: a number is an integer count  *)
(* of units of 2^-FracBits with at most MantissaBits significant bits.       *)

MantissaBits == 6

FracBits == 10

Unit == 2 ^ FracBits

\* n / d rounded to the nearest integer, ties to the even one (n >= 0, d > 0)
RoundDiv(n, d) ==
    LET q == n \div d
        r == n % d
    IN IF 2 * r < d THEN q
       ELSE IF 2 * r > d THEN q + 1
       ELSE IF q % 2 = 0 THEN q ELSE q + 1

\* The least e >= 0 with n / d < 2^(MantissaBits + e)
RECURSIVE Exponent(_, _, _)
Exponent(n, d, e) ==
    IF n < d * 2 ^ (MantissaBits + e) THEN e ELSE Exponent(n, d, e + 1)

\* n / d rounded to the nearest representable number (d > 0)
FloatRound(n, d) ==
    LET a == Abs(n)
        ulp == 2 ^ Exponent(a, d, 0)
        m == ulp * RoundDiv(a, d * ulp)
    IN IF n < 0 THEN 0 - m ELSE m

\* The number a decimal literal num/den denotes
Literal(num, den) == FloatRound(num * Unit, den)

FloatAdd(a, b) == FloatRound(a + b, 1)
FloatMul(a, b) == FloatRound(a * b, Unit)
FloatDiv(a, b) == FloatRound(a * Unit, b)

\* weights = {'isolation_forest': 0.7, 'elliptic_envelope': 0.3}  (line 470)
FusionWeights ==
    [isolation_forest |-> Literal(IsolationForestWeight, 10),
     elliptic_envelope |-> Literal(EllipticEnvelopeWeight, 10)]

\* The accumulation of lines 472-478 over the scorers in order
RECURSIVE Accumulate(_, _, _)
Accumulate(order, scores, acc) ==
    IF order = <<>> THEN acc
    ELSE LET algo == Head(order)
         IN IF algo \in DOMAIN scores /\ algo \in DOMAIN FusionWeights
            THEN Accumulate(Tail(order), scores,
                    [weighted_score |->
                        FloatAdd(acc.weighted_score,
                                 FloatMul(scores[algo], FusionWeights[algo])),
                     total_weight |-> FloatAdd(acc.total_weight, FusionWeights[algo])])
            ELSE Accumulate(Tail(order), scores, acc)

\* _fusion_anomaly_scores on floating-point scores; _multi_algorithm_detection
\* inserts the isolation forest's score first
FusionFloat(scores) ==
    LET acc == Accumulate(<<"isolation_forest", "elliptic_envelope">>, scores,
                          [weighted_score |-> 0, total_weight |-> 0])
    IN IF DOMAIN scores = {} THEN 0
       ELSE IF acc.total_weight > 0
            THEN FloatDiv(acc.weighted_score, acc.total_weight)
       ELSE 0

\* Dictionaries of scores: each scorer contributes a value or is missing
ScoreDicts(if_values, ee_values) ==
    {<<>>}
      \cup {[a \in {"isolation_forest"} |-> x] : x \in if_values}
      \cup {[a \in {"elliptic_envelope"} |-> y] : y \in ee_values}
      \cup {[a \in {"isolation_forest", "elliptic_envelope"} |->
                IF a = "isolation_forest" THEN xy[1] ELSE xy[2]] :
             xy \in if_values \X ee_values}

\* Floating-point scores: decision_function of the isolation forest lies in
\* [-0.5, 0.5], that of the elliptic envelope is unbounded below
Representable(x) == FloatRound(x, 1) = x
FloatIFScores ==
    {x \in (0 - Unit \div 2) .. (Unit \div 2) :
        Representable(x) /\ (x = 0 \/ Abs(x) >= Unit \div 8)}
FloatEEScores == {0 - 3 * Unit, 0 - Unit - Unit \div 32, 0 - Unit \div 4, 0, Unit \div 8}

\* Scores in tenths, as the state machine computes them
DecimalIFScores == -5 .. 5
DecimalEEScores == {-200, -31, -16, -5, -4, 0, 3, 12, 30}

\* _fusion_anomaly_scores(scores) is called
Fusion(scores) ==
    /\ last.op = "none"
    /\ last' = [op |-> "_fusion_anomaly_scores", scores |-> scores,
                ret |-> FusionFloat(scores)]
    /\ UNCHANGED <<det, disk, now, nruns, ncalls, tctx>>

\* _calculate_confidence(scores) is called
Confidence(scores) ==
    /\ last.op = "none"
    /\ last' = [op |-> "_calculate_confidence", scores |-> scores,
                ret |-> _calculate_confidence(scores)]
    /\ UNCHANGED <<det, disk, now, nruns, ncalls, tctx>>

NextScoring ==
    \/ \E scores \in ScoreDicts(FloatIFScores, FloatEEScores) : Fusion(scores)
    \/ \E scores \in ScoreDicts(DecimalIFScores, DecimalEEScores) : Confidence(scores)

SpecScoring == Init /\ [][NextScoring]_vars

\* C15 (as claimed): the fused score is 0.7*a + 0.3*b with both scorers, the
\* raw score of the scorer with only one, and 0.0 with none.
C15_FusedIsWeightedAverage ==
    last.op = "_fusion_anomaly_scores"
        => LET scores == last.scores
           IN CASE DOMAIN scores = {} -> last.ret = 0
                [] DOMAIN scores = {"isolation_forest"} ->
                      last.ret = scores["isolation_forest"]
                [] DOMAIN scores = {"elliptic_envelope"} ->
                      last.ret = scores["elliptic_envelope"]
                [] OTHER ->
                      last.ret = FloatAdd(FloatMul(FusionWeights["isolation_forest"],
                                                   scores["isolation_forest"]),
                                          FloatMul(FusionWeights["elliptic_envelope"],
                                                   scores["elliptic_envelope"]))

\* Standard deviation of the scores of a non-empty dictionary, in hundredths
\* (scores in tenths); that of two scores a, b is |a - b| / 2
StdDev(scores) ==
    IF Cardinality(DOMAIN scores) < 2 THEN 0
    ELSE Abs(scores["isolation_forest"] - scores["elliptic_envelope"]) * 5

\* C16 (as claimed): the confidence is 0.8 with exactly one score and
\* max(0, min(1, 1 - stddev(scores))) otherwise, and lies in [0, 1].
C16_ConfidenceTwoCases ==
    last.op = "_calculate_confidence"
        => /\ last.ret = IF Cardinality(DOMAIN last.scores) = 1 THEN 80
                         ELSE Max(0, Min(100, 100 - StdDev(last.scores)))
           /\ last.ret \in 0..100

\* C16 (amended): the confidence is 0.0 when no scorer contributed a score,
\* 0.8 when exactly one did, max(0, min(1, 1 - stddev(scores))) when both
\* did, and lies in [0, 1].
C16_ConfidenceThreeCases ==
    last.op = "_calculate_confidence"
        => /\ last.ret = CASE Cardinality(DOMAIN last.scores) = 0 -> 0
                           [] Cardinality(DOMAIN last.scores) = 1 -> 80
                           [] OTHER -> Max(0, Min(100, 100 - StdDev(last.scores)))
           /\ last.ret \in 0..100

\* two scores far enough apart for the lower clamp to act
C16_Witness ==
    /\ last.op = "_calculate_confidence"
    /\ Cardinality(DOMAIN last.scores) = 2
    /\ StdDev(last.scores) > 100
    /\ last.ret = 0

----------------------------------------------------------------------------
(* Per-metric classification *)

SuccessfulDetect == last.op = "detect" /\ ~last.failed

\* C17: for every scaled value v of a metric, is_outlier holds iff |v| > 2.0;
\* severity is severe if |v| > 3.0, moderate if 2.0 < |v| <= 3.0, mild if
\* 1.0 < |v| <= 2.0, else normal; status is high if v > 2.0, low if
\* v < -2.0, else normal.  So is_outlier holds exactly when severity is
\* moderate or severe and exactly when status is not normal, whatever the
\* fused anomaly decision is.
C17_MetricClassification ==
    SuccessfulDetect =>
        \A metric \in DOMAIN last.result.anomaly_details :
            LET e == last.result.anomaly_details[metric]
                v == e.scaled_value
            IN /\ e.is_outlier <=> Abs(v) > 20
               /\ e.severity = CASE Abs(v) > 30 -> "severe"
                                  [] Abs(v) > 20 /\ Abs(v) <= 30 -> "moderate"
                                  [] Abs(v) > 10 /\ Abs(v) <= 20 -> "mild"
                                  [] OTHER -> "normal"
               /\ e.status = CASE v > 20 -> "high"
                                [] v < -20 -> "low"
                                [] OTHER -> "normal"
               /\ e.is_outlier <=> e.severity \in {"moderate", "severe"}
               /\ e.is_outlier <=> e.status # "normal"

\* a sample that is normal as a whole with one metric flagged mild, after a
\* sample flagged as a whole had a metric classified low
C17_Witness ==
    /\ SuccessfulDetect
    /\ ~last.result.is_anomaly
    /\ \E metric \in DOMAIN last.result.anomaly_details :
          /\ last.result.anomaly_details[metric].severity = "mild"
          /\ ~last.result.anomaly_details[metric].is_outlier
    /\ \E metric \in DOMAIN last.result.anomaly_details :
          last.result.anomaly_details[metric].severity = "normal"

----------------------------------------------------------------------------
(* Health score *)

\* the bands of _calculate_metric_penalty by category
Bands ==
    [temperature |-> [min |-> 0, max |-> 100, warning |-> 80],
     current |-> [min |-> 0, max |-> 50, warning |-> 40],
     pressure |-> [min |-> 0, max |-> 10, warning |-> 8],
     other |-> [min |-> -1000, max |-> 1000, warning |-> 800]]

OutOfBand(value, category) ==
    value.v > Bands[category].max \/ value.v < Bands[category].min

AboveWarning(value, category) ==
    ~OutOfBand(value, category) /\ value.v > Bands[category].warning

\* penalty(m) in tenths
BandPenalty(value, category) ==
    IF OutOfBand(value, category) THEN 3
    ELSE IF AboveWarning(value, category) THEN 1
    ELSE 0

\* the row a detect of this detector scores for a named sample
ScoredRow(d, name) == _validate_data(d, Sample(name)).val

\* 100 - A - sum over metrics of penalty(m) * weight(category(m)) * 100
PenalisedScore(d, name, result) ==
    LET data == ScoredRow(d, name)
        A == IF result.is_anomaly
             THEN Min(3000, Abs(result.anomaly_score) * 20) ELSE 0
        charge == [j \in DOMAIN data.cols |->
                     LET category == _classify_metric_type(data.cols[j])
                     IN BandPenalty(data.rows[1][data.cols[j]], category)
                          * d.config.health_weights[category] * 100]
    IN 10000 - A - SumSeq(charge)

\* exactly one temperature metric out of band, every other metric nominal
OneTemperatureOutOfBand(d, name) ==
    LET data == ScoredRow(d, name)
        Off == {j \in DOMAIN data.cols :
                   BandPenalty(data.rows[1][data.cols[j]],
                               _classify_metric_type(data.cols[j])) # 0}
    IN /\ Cardinality(Off) = 1
       /\ \A j \in Off :
             /\ _classify_metric_type(data.cols[j]) = "temperature"
             /\ OutOfBand(data.rows[1][data.cols[j]], "temperature")

IndustrialWeights(d) ==
    /\ d.config.health_weights.temperature = 5
    /\ d.config.health_weights.current = 3
    /\ d.config.health_weights.pressure = 2

\* C18: the health score of a successful detect is
\* clamp(0, 100, 100 - A - sum of penalty(m) * weight(category(m)) * 100)
\* with A = min(30, |fused_score| * 20) for an anomalous sample and 0
\* otherwise, and penalty(m) 0.3 outside the band, 0.1 inside it above the
\* warning level, else 0.  With weights temperature 0.5, current 0.3,
\* pressure 0.2, a non-anomalous sample with exactly one out-of-band
\* temperature metric and all others nominal scores exactly 85.
C18_HealthScoreFormula ==
    SuccessfulDetect =>
        /\ last.result.health_score =
              Max(0, Min(10000, PenalisedScore(det, last.arg, last.result)))
        /\ (/\ IndustrialWeights(det)
            /\ ~last.result.is_anomaly
            /\ OneTemperatureOutOfBand(det, last.arg))
              => last.result.health_score = 8500

\* the scenario on a detector that monitors two metrics
C18_Witness ==
    /\ SuccessfulDetect
    /\ IndustrialWeights(det)
    /\ ~last.result.is_anomaly
    /\ Len(det.metrics_to_monitor) = 2
    /\ OneTemperatureOutOfBand(det, last.arg)
    /\ last.result.health_score = 8500

\* the outlier scenario: one monitored temperature metric, a sample with
\* temperature 250 that is flagged anomalous
OutlierScenario ==
    /\ SuccessfulDetect
    /\ last.arg = "outlier"
    /\ det.metrics_to_monitor = <<TempMetric>>
    /\ last.result.is_anomaly

\* C19 (as claimed): in the outlier scenario the result has severity severe
\* for the metric and a health score below 50.
C19_OutlierBelowFifty ==
    OutlierScenario =>
        /\ last.result.anomaly_details[TempMetric].severity = "severe"
        /\ last.result.health_score < 5000

\* C19 (amended): in the outlier scenario the result has severity severe for
\* the metric and a health score of 100 - 30 - 0.3 * weight(temperature) * 100,
\* which is 58 with the default temperature weight 0.4 and 55 with 0.5.
C19_OutlierScore ==
    OutlierScenario =>
        /\ last.result.anomaly_details[TempMetric].severity = "severe"
        /\ last.result.health_score =
              7000 - 300 * det.config.health_weights.temperature
        /\ last.result.health_score \in {5500, 5800}

C19_Witness ==
    /\ OutlierScenario
    /\ det.config.health_weights.temperature = 4
    /\ last.result.health_score = 5800

----------------------------------------------------------------------------
(* Health-score history *)

\* C20: the health-score history never holds more than 100 entries, and they
\* are the most recent health scores in the order they were produced: a new
\* score goes to the end, and when the history is full the oldest entry is
\* the one evicted.  Operations other than detect leave the history alone
\* or, for clear_cache, empty it.
C20_HistoryKeepsMostRecent ==
    /\ [](Len(det.health_score_history) <= 100)
    /\ [][LET old == det.health_score_history
              new == det'.health_score_history
              score == last'.result.health_score
          IN IF DetectCallStep /\ ~last'.failed
             THEN /\ Len(old) < 100 => new = Append(old, score)
                  /\ Len(old) = 100 => new = Append(Tail(old), score)
             ELSE new = old \/ (last'.op = "clear_cache" /\ new = <<>>)]_vars

\* the 101st score has been appended and the first one is gone
C20_Witness ==
    LET full == Replay(InService.det, 100).health_score_history
    IN /\ SuccessfulDetect
       /\ Len(full) = 100
       /\ det.health_score_history = Append(Tail(full), last.result.health_score)
       /\ Head(det.health_score_history) # Head(full)

----------------------------------------------------------------------------
(* Sample cache *)

\* C21 (as claimed): the sample cache never holds more rows than the
\* configured cache_size, and right after a successful train it holds the
\* last min(n, cache_size) cleaned training rows in their order.
C21_CacheWithinSize ==
    /\ Len(det.training_data_cache.rows) <= det.config.cache_size
    /\ (last.op = "train" /\ last.ret /\ ~last.skipped)
          => det.training_data_cache.rows =
                TailN(_validate_data(det, Corpus(last.arg)).val.rows,
                      det.config.cache_size)

----------------------------------------------------------------------------
(* Configuration at construction *)

Constructed == last.op \in {"construct", "create_detector"}

WeightSum(weights) ==
    SumSeq([j \in 1..4 |->
        weights[<<"temperature", "current", "pressure", "other">>[j]]])

\* C22 (as claimed): every detector that construction yields, directly or
\* through a factory preset, has non-negative health weights whose sum over
\* all categories, the "other" bucket included, is at most 1.
C22_WeightsSumAtMostOne ==
    Constructed =>
        /\ \A category \in DOMAIN det.config.health_weights :
              det.config.health_weights[category] >= 0
        /\ WeightSum(det.config.health_weights) <= 10

----------------------------------------------------------------------------
(* Sample validator *)

Finite(value) == value.k \notin {"nan", "inf"}

\* the monitored columns that the table has
MonitoredIn(d, data) == Range(d.metrics_to_monitor) \cap Range(data.cols)

\* the rows of the table whose monitored cells are all finite
FiniteRows(d, data) ==
    {i \in DOMAIN data.rows : \A c \in MonitoredIn(d, data) : Finite(data.rows[i][c])}

\* C23: the validator's output holds only monitored columns present in the
\* input and only finite values, in the rows and order of the input; it
\* fails exactly when the input is empty, has no monitored column, or has a
\* non-finite value in a monitored column of every row.
C23_ValidatorOutputFinite ==
    last.op = "_validate_data" =>
        LET data == last.data
            out == last.ret
            must_fail == \/ data.cols = <<>> \/ data.rows = <<>>
                         \/ MonitoredIn(det, data) = {}
                         \/ FiniteRows(det, data) = {}
        IN /\ out.ok <=> ~must_fail
           /\ out.ok =>
                /\ Range(out.val.cols) = MonitoredIn(det, data)
                /\ Len(out.val.rows) = Cardinality(FiniteRows(det, data))
                /\ \A i \in DOMAIN out.val.rows :
                      /\ DOMAIN out.val.rows[i] = MonitoredIn(det, data)
                      /\ \A c \in MonitoredIn(det, data) : Finite(out.val.rows[i][c])
                      /\ \E k \in FiniteRows(det, data) :
                            /\ Cardinality({j \in FiniteRows(det, data) : j <= k}) = i
                            /\ \A c \in MonitoredIn(det, data) :
                                  out.val.rows[i][c] = data.rows[k][c]

\* a row with an infinite monitored cell is dropped, a row whose only
\* non-finite cell is in an unmonitored column is kept without that column
C23_Witness ==
    /\ last.op = "_validate_data"
    /\ last.ret.ok
    /\ Len(last.data.rows) = 2 /\ Len(last.ret.val.rows) = 1
    /\ last.data.rows[1][TempMetric] = Inf
    /\ OtherColumn \in Range(last.data.cols)
    /\ last.data.rows[2][OtherColumn] = NaN

----------------------------------------------------------------------------
(* Retraining *)

\* C24 (as claimed): after a successful train every artifact of the bundle
\* results from that run's corpus: the scaler, the isolation scorer, the
\* robust-covariance scorer and the trend regressor are either absent or
\* fitted by that run, and the cache is the tail of that run's cleaned rows.
C24_BundleFromOneRun ==
    (last.op = "train" /\ last.ret /\ ~last.skipped) =>
        /\ det.scaler.present /\ det.scaler.run = nruns
        /\ det.isolation_forest.present /\ det.isolation_forest.run = nruns
        /\ det.elliptic_envelope.present => det.elliptic_envelope.run = nruns
        /\ det.trend_predictor.present => det.trend_predictor.run = nruns
        /\ det.training_data_cache.rows =
              TailN(_validate_data(det, Corpus(last.arg)).val.rows,
                    det.config.cache_size)

----------------------------------------------------------------------------
(* Trend rollout *)

Numbers(vals) == [j \in DOMAIN vals |-> Num(vals[j])]

\* the window of step i as claimed: the last 5 - i seed values followed by
\* the first i predictions
ClaimedWindow(seed, vals, i) ==
    SubSeq(seed, i + 1, Len(seed)) \o Numbers(SubSeq(vals, 1, i))

\* the window of step i: the last 5 values of the seed followed by the first
\* i predictions
SlidingWindow(seed, vals, i) ==
    TailN(seed \o Numbers(SubSeq(vals, 1, i)), 5)

\* what C25 says of one metric, for a given reading of "the window of step i"
RolloutOf(metric, Window(_, _, _)) ==
    LET data == _validate_data(det, Sample(last.arg)).val
        known == CombinedValues(det, data, metric)
        seed == TailN(known, 5)
    IN IF /\ det.trend_predictor.present
          /\ metric \in Range(det.training_data_cache.cols) \cup Range(data.cols)
          /\ Len(known) >= 5
          /\ \A j \in DOMAIN seed : seed[j].k = "num"
       THEN /\ metric \in DOMAIN last.ret
            /\ seed[5] = IF metric \in Range(data.cols)
                         THEN data.rows[Len(data.rows)][metric] ELSE NaN
            /\ Len(last.ret[metric].values) = det.config.prediction_points
            /\ \A i \in 0..(det.config.prediction_points - 1) :
                  /\ Len(Window(seed, last.ret[metric].values, i)) = 5
                  /\ last.ret[metric].values[i + 1] =
                        RegressorPredict(det.trend_predictor,
                                         Window(seed, last.ret[metric].values, i))
       ELSE metric \notin DOMAIN last.ret

\* C25 (as claimed): every monitored metric with at least 5 known values gets
\* prediction_points forecasts; step i predicts from a window of 5 values,
\* the last 5 - i seed values followed by the first i predictions; a metric
\* with fewer than 5 known values gets no entry.
C25_RolloutSeedThenAll ==
    last.op = "_predict_trends" =>
        \A metric \in Range(det.metrics_to_monitor) : RolloutOf(metric, ClaimedWindow)

\* C25 (amended): every monitored metric with at least 5 known values gets
\* prediction_points forecasts; step i predicts from the last 5 values of
\* the seed followed by the first i predictions, that is the last 5 - i seed
\* values and the first i predictions while i <= 5 and the 5 latest
\* predictions afterwards; a metric with fewer than 5 known values gets no
\* entry.
C25_RolloutSlidingWindow ==
    last.op = "_predict_trends" =>
        \A metric \in Range(det.metrics_to_monitor) : RolloutOf(metric, SlidingWindow)

\* more forecasts than the window is long, seeded from cache and sample,
\* next to a metric without an entry
C25_Witness ==
    /\ last.op = "_predict_trends"
    /\ TempMetric \in DOMAIN last.ret
    /\ Len(last.ret[TempMetric].values) = 7
    /\ Len(det.training_data_cache.rows) = 4
    /\ CtMetric \in Range(det.metrics_to_monitor) \ DOMAIN last.ret

----------------------------------------------------------------------------
(* Prediction confidence *)

\* C26 (as claimed): the prediction confidence is
\* clamp(0.1, 0.9, 1 / (1 + std(history) + std(predictions))) for every seed
\* window and forecast sequence, a constant window with varying forecasts
\* included.
C26_PredictionConfidenceFormula ==
    last.op = "_calculate_prediction_confidence" =>
        last.ret = Max(10, Min(90, 10000 \div (100 + NpStd(last.historical)
                                                   + NpStd(last.predictions))))

----------------------------------------------------------------------------
(* Frame of detect *)

\* C27: a detect call, in any state and for any input, changes nothing of
\* the detector but the health-score history and the detection-time log:
\* is_trained, the scaler, the scorers, the trend regressor, last_train_time,
\* the sample cache and the configuration stay as they are, no training run
\* starts and the bundle file is not written, however long ago the last
\* training was.
C27_DetectFrame ==
    [][DetectCallStep =>
         /\ det' = [det EXCEPT
                       !.health_score_history = det'.health_score_history,
                       !.n_detection_times = det'.n_detection_times]
         /\ nruns' = nruns
         /\ disk' = disk]_vars

\* a detection with forecasts, two retrain intervals after the training
C27_Witness ==
    /\ SuccessfulDetect
    /\ "predictions" \in DOMAIN last.result
    /\ last.result.predictions # <<>>
    /\ det.last_train_time.set
    /\ now - det.last_train_time.t >= det.config.retrain_interval_hours
    /\ det.health_score_history # <<>>

----------------------------------------------------------------------------
(* update_config *)

UpdateConfigStep == ncalls' = ncalls + 1 /\ now' = now /\ last'.op = "update_config"

\* C28: update_config with isolation_forest, elliptic_envelope or scaler_type
\* among its top-level keys makes the detector Untrained; with other keys
\* only it leaves is_trained and the models as they are.  An Untrained
\* detector reports not-ready on every detect and becomes Trained only by a
\* train that succeeds, and a train(force=false) on an Untrained detector is
\* carried out whatever the time since last_train_time, succeeding on enough
\* numeric rows with valid scorer parameters.
C28_CriticalUpdateUntrains ==
    /\ [][UpdateConfigStep =>
             IF last'.keys \cap {"isolation_forest", "elliptic_envelope",
                                 "scaler_type"} # {}
             THEN ~det'.is_trained
             ELSE det'.is_trained = det.is_trained /\ Bundle(det') = Bundle(det)]_vars
    /\ [][(DetectCallStep /\ ~det.is_trained) =>
             (last'.failed /\ last'.result.error = "model not trained")]_vars
    /\ [][(~det.is_trained /\ det'.is_trained) =>
             (last'.op = "train" /\ last'.ret /\ ~last'.skipped)]_vars
    /\ [][(TrainCallStep /\ ~det.is_trained) =>
             /\ ~last'.skipped
             /\ (EnoughNumericRows(det, last'.arg) /\ ~IsolationForestFitRaises(det))
                   => (last'.ret /\ det'.is_trained)]_vars

\* a train(force=false) carried out at the time of the earlier training,
\* after a scaler_type update had made the detector Untrained
C28_Witness ==
    /\ last.op = "train" /\ ~last.force
    /\ last.ret /\ ~last.skipped /\ ~last.was_trained
    /\ det.config.scaler_type = "standard"
    /\ det.n_training_times = 2
    /\ now = 0

----------------------------------------------------------------------------
(* add_metric, remove_metric *)

MetricStep(x) ==
    /\ ncalls' = ncalls + 1
    /\ last'.op \in {"add_metric", "remove_metric"}
    /\ last'.who = x

\* C29: add_metric with a name not yet monitored appends it, remove_metric
\* with a monitored name takes it out, and both leave the detector
\* Untrained; add_metric of a monitored name and remove_metric of an
\* unmonitored name change nothing.  An Untrained detector becomes Trained
\* only by a train of its own that succeeds.
C29_MetricChangeUntrains ==
    /\ [][\A x \in DetectorNames : MetricStep(x) =>
             LET before == det.objs[x].metrics_to_monitor
                 after == det'.objs[x].metrics_to_monitor
                 acts == IF last'.op = "add_metric"
                         THEN last'.arg \notin Range(before)
                         ELSE last'.arg \in Range(before)
             IN IF acts
                THEN /\ ~det'.objs[x].is_trained
                     /\ after # before
                     /\ IF last'.op = "add_metric"
                        THEN after = Append(before, last'.arg)
                        ELSE Range(after) = Range(before) \ {last'.arg}
                     /\ det'.objs[x] = [det.objs[x] EXCEPT
                                            !.metrics_to_monitor = after,
                                            !.is_trained = FALSE]
                ELSE det' = det]_vars
    /\ [][\A x \in DetectorNames :
             (~det.objs[x].is_trained /\ det'.objs[x].is_trained)
                => (last'.op = "train" /\ last'.who = x /\ last'.ret)]_vars

\* a Trained detector that had a metric removed and added again, and was
\* trained once more
C29_Witness ==
    \E x \in DetectorNames :
        /\ last.op = "train" /\ last.who = x /\ last.ret
        /\ det.objs[x].is_trained
        /\ det.objs[x].metrics_to_monitor = <<TempMetric>>
        /\ det.objs[x].n_training_times = 2

\* C30 (as claimed): add_metric or remove_metric on one detector changes
\* neither the monitored metrics of another detector nor the caller's list,
\* and no detector's metrics change while it stays marked Trained.
C30_MetricListOwned ==
    /\ [][\A x \in DetectorNames : MetricStep(x) =>
             /\ det'.caller = det.caller
             /\ \A y \in DetectorNames \ {x} :
                   det'.objs[y].metrics_to_monitor = det.objs[y].metrics_to_monitor]_vars
    /\ [][\A y \in DetectorNames :
             (det.objs[y].is_trained /\ det'.objs[y].is_trained)
                => det'.objs[y].metrics_to_monitor = det.objs[y].metrics_to_monitor]_vars

====
